---- MODULE Spec2Model ----
(***************************************************************************)
(* Recurring-transaction detection (RecurringTransactionDetector), its     *)
(* persistence task (detect_recurring_transactions_task) and the anomaly   *)
(* store (create_anomaly_if_new, AnomalyDetectionService) of the finance   *)
(* backend.                                                                *)
(*                                                                         *)
(* Conventions: dates are day numbers, amounts are integer cents, Python   *)
(* floats and Decimals are exact rationals <<num, den>> (den > 0, lowest   *)
(* terms), strings are sequences of one-character strings.                 *)
(***************************************************************************)
EXTENDS Integers, Sequences, FiniteSets, TLC

VARIABLES
    store,          \* Transaction rows of the database, in the order the
                    \* detector's queryset returns them
    grouped,        \* detect(): the candidate groups after the three passes
    patterns,       \* RecurringTransactionDetector.patterns
    rows,           \* RecurringTransaction rows of the database
    pc,             \* position of detect_recurring_transactions_task
    idx,            \* index of the pattern the upsert loop is at
    runs,           \* completed task runs
    created_count,  \* the task's created_count
    updated_count,  \* the task's updated_count
    detections,     \* the lists detect() returned on a detector instance that
                    \* is called more than once, each as of its return
    request,        \* the task request: retries made so far, and the
                    \* countdown the last retry was scheduled with
    group,          \* transactions handed to _find_patterns_in_group
    result,         \* what _find_patterns_in_group returned for them
    call_pass,      \* the confidence_pass argument of that call (0: not called)
    rule_table,     \* Rule rows of the database
    now,            \* the clock, in hours
    anomaly_table,  \* Anomaly rows of the database
    notification_table, \* AnomalyNotification rows of the database
    preferences,    \* UserAnomalyPreferences rows, by user
    call,           \* the latest create_anomaly_if_new call: argument and return
    run,            \* position of each detection run inside create_anomaly_if_new
    seen,           \* by Anomaly id: the rows that existed when its call queried
    returned,       \* the anomalies the latest detector call returned
    detector,       \* the detector that was called last
    argument        \* the transaction, category or recurring row it was given

tvars == <<store, grouped, patterns, rows, pc, idx, runs, created_count, updated_count,
           detections, request>>

pvars == <<group, result, call_pass, rule_table>>

avars == <<now, anomaly_table, notification_table, preferences, call, run, seen,
           returned, detector, argument>>

vars == <<store, grouped, patterns, rows, pc, idx, runs, created_count, updated_count,
          detections, request,
          group, result, call_pass, rule_table,
          now, anomaly_table, notification_table, preferences, call, run, seen,
          returned, detector, argument>>

----------------------------------------------------------------------------
(* Bounds *)

MaxGroup == 4

MaxTx == 4

MaxRuns == 2

MaxCalls == 3

MaxTicks == 3

MaxLedger == 2

MaxDetects == 2

MaxHistory == 4

\* Rule rows in the database
MaxRules == 2

----------------------------------------------------------------------------
(* Arithmetic helpers: rationals stand for Python float / Decimal values *)

Abs(x) == IF x < 0 THEN -x ELSE x

RECURSIVE Gcd(_, _)
Gcd(a, b) == IF b = 0 THEN a ELSE Gcd(b, a % b)

Rat(n, d) ==
    LET g == Gcd(Abs(n), Abs(d))
        s == IF d < 0 THEN -1 ELSE 1
    IN  <<(s * n) \div g, (s * d) \div g>>

RAdd(a, b) == Rat(a[1] * b[2] + b[1] * a[2], a[2] * b[2])
RMul(a, b) == Rat(a[1] * b[1], a[2] * b[2])
RLt(a, b) == a[1] * b[2] < b[1] * a[2]
RLeq(a, b) == a[1] * b[2] <= b[1] * a[2]
RMin(a, b) == IF RLeq(a, b) THEN a ELSE b

RECURSIVE SumSeq(_)
SumSeq(s) == IF s = <<>> THEN 0 ELSE Head(s) + SumSeq(Tail(s))

----------------------------------------------------------------------------
(* RecurringTransactionDetector: configuration *)

Frequencies == <<"weekly", "bi-weekly", "monthly", "quarterly", "yearly">>

FreqSet == {Frequencies[i] : i \in 1..Len(Frequencies)}

\* Variant: a month of 31 days
FREQUENCY_DAYS_Month31 ==
    [f \in FreqSet |->
        CASE f = "weekly" -> 7
          [] f = "bi-weekly" -> 14
          [] f = "monthly" -> 31
          [] f = "quarterly" -> 90
          [] f = "yearly" -> 365]

FREQUENCY_DAYS ==
    [f \in FreqSet |->
        CASE f = "weekly" -> 7
          [] f = "bi-weekly" -> 14
          [] f = "monthly" -> 30
          [] f = "quarterly" -> 90
          [] f = "yearly" -> 365]

\* Variant: the coarser the frequency, the higher its priority
FREQUENCY_PRIORITY_Reversed ==
    [f \in FreqSet |->
        CASE f = "weekly" -> 1
          [] f = "bi-weekly" -> 2
          [] f = "monthly" -> 3
          [] f = "quarterly" -> 4
          [] f = "yearly" -> 5]

FREQUENCY_PRIORITY ==
    [f \in FreqSet |->
        CASE f = "weekly" -> 5
          [] f = "bi-weekly" -> 4
          [] f = "monthly" -> 3
          [] f = "quarterly" -> 2
          [] f = "yearly" -> 1]

MIN_OCCURRENCES ==
    [f \in FreqSet |->
        CASE f = "weekly" -> 3
          [] f = "bi-weekly" -> 3
          [] f = "monthly" -> 2
          [] f = "quarterly" -> 2
          [] f = "yearly" -> 2]

\* Variant: the multipliers of pass 2 and pass 3 exchanged
pass_multipliers_Swapped(confidence_pass) ==
    CASE confidence_pass = 1 -> Rat(100, 100)
      [] confidence_pass = 2 -> Rat(65, 100)
      [] OTHER -> Rat(85, 100)

\* pass_multipliers.get(confidence_pass, 0.65)
pass_multipliers(confidence_pass) ==
    CASE confidence_pass = 1 -> Rat(100, 100)
      [] confidence_pass = 2 -> Rat(85, 100)
      [] OTHER -> Rat(65, 100)

\* Variant: a threshold of 0.5
MIN_CONFIDENCE_Half == Rat(5, 10)

\* if confidence < 0.6: return None
MIN_CONFIDENCE == Rat(6, 10)

None == [frequency |-> "none"]

----------------------------------------------------------------------------
(* _detect_pattern *)

\* sorted(transactions, key=lambda t: t['date']): stable insertion sort
RECURSIVE InsertByDate(_, _)
InsertByDate(t, s) ==
    IF s = <<>> THEN <<t>>
    ELSE IF t.date < Head(s).date THEN <<t>> \o s
    ELSE <<Head(s)>> \o InsertByDate(t, Tail(s))

RECURSIVE SortByDate(_)
SortByDate(s) ==
    IF s = <<>> THEN <<>>
    ELSE InsertByDate(s[Len(s)], SortByDate(SubSeq(s, 1, Len(s) - 1)))

Intervals(txs) == [i \in 1..(Len(txs) - 1) |-> txs[i + 1].date - txs[i].date]

Amounts(txs) == [i \in 1..Len(txs) |-> txs[i].amount]

\* Variant: a tolerance of 300% instead of 30%
IntervalValid_Wide(i, expected_days) == Abs(i - expected_days) <= 3 * expected_days

\* abs(i - expected_days) <= expected_days * 0.3; for the five expected day
\* counts the float product 0.3 * e admits the same integers as 3e/10
IntervalValid(i, expected_days) == 10 * Abs(i - expected_days) <= 3 * expected_days

ValidIntervals(txs, expected_days) ==
    SelectSeq(Intervals(txs), LAMBDA i : IntervalValid(i, expected_days))

\* amount_variance = [a for a in amounts]
AmountVariance(txs) == Amounts(txs)

\* Variant: the occurrence ratio enters without the cap min(..., 1.0)
BaseConfidence_UncappedOccurrence(txs, frequency) ==
    RAdd(RAdd(RMul(Rat(Len(ValidIntervals(txs, FREQUENCY_DAYS[frequency])),
                       Len(Intervals(txs))),
                   Rat(5, 10)),
              RMul(Rat(Len(AmountVariance(txs)), Len(Amounts(txs))), Rat(3, 10))),
         RMul(Rat(Len(txs), MIN_OCCURRENCES[frequency]), Rat(2, 10)))

BaseConfidence(txs, frequency) ==
    LET expected_days == FREQUENCY_DAYS[frequency]
        intervals == Intervals(txs)
        amounts == Amounts(txs)
        interval_consistency ==
            IF Len(intervals) > 0
            THEN Rat(Len(ValidIntervals(txs, expected_days)), Len(intervals))
            ELSE Rat(0, 1)
        amount_consistency ==
            IF Len(amounts) > 0
            THEN Rat(Len(AmountVariance(txs)), Len(amounts))
            ELSE Rat(0, 1)
        occurrence_ratio == Rat(Len(txs), MIN_OCCURRENCES[frequency])
    IN  RAdd(RAdd(RMul(interval_consistency, Rat(5, 10)),
                  RMul(amount_consistency, Rat(3, 10))),
             RMul(RMin(occurrence_ratio, Rat(1, 1)), Rat(2, 10)))

Confidence(txs, frequency, confidence_pass) ==
    RMul(BaseConfidence(txs, frequency), pass_multipliers(confidence_pass))

_detect_pattern(description, txs, frequency, confidence_pass) ==
    LET expected_days == FREQUENCY_DAYS[frequency]
        amounts == Amounts(txs)
        avg_amount == Rat(SumSeq(amounts), Len(amounts))
        confidence == Confidence(txs, frequency, confidence_pass)
        last_date == txs[Len(txs)].date
    IN  IF Len(txs) < MIN_OCCURRENCES[frequency] THEN None
        ELSE IF Len(ValidIntervals(txs, expected_days)) < MIN_OCCURRENCES[frequency] - 1
        THEN None
        ELSE IF avg_amount[1] = 0 THEN None
        ELSE IF 10 * Len(AmountVariance(txs)) < 7 * Len(amounts) THEN None
        ELSE IF RLt(confidence, MIN_CONFIDENCE) THEN None
        ELSE [description |-> description,
              amount |-> avg_amount,
              frequency |-> frequency,
              days_interval |-> expected_days,
              next_expected_date |-> last_date + expected_days,
              last_occurrence_date |-> last_date,
              occurrence_count |-> Len(txs),
              confidence_score |-> confidence,
              transaction_ids |-> [i \in 1..Len(txs) |-> txs[i].id],
              similar_descriptions |-> {txs[i].description : i \in 1..Len(txs)}]

----------------------------------------------------------------------------
(* _score_pattern and _find_patterns_in_group *)

_score_pattern(pattern, frequency) ==
    LET priority == Rat(FREQUENCY_PRIORITY[frequency], 5)
        min_occurrences == MIN_OCCURRENCES[frequency]
        occurrence_score ==
            RMin(Rat(pattern.occurrence_count, min_occurrences + 1), Rat(1, 1))
        interval_accuracy == Rat(8, 10)
    IN  RAdd(RAdd(RMul(pattern.confidence_score, Rat(5, 10)),
                  RMul(priority, Rat(2, 10))),
             RAdd(RMul(occurrence_score, Rat(2, 10)),
                  RMul(interval_accuracy, Rat(1, 10))))

\* Variant: every passing frequency replaces the best one (no score comparison)
BetterScored_KeepLast(st, pattern, score) == <<pattern, score>>

\* if score > best_score: best_score = score; best_pattern = pattern
BetterScored(st, pattern, score) == IF RLt(st[2], score) THEN <<pattern, score>> ELSE st

\* if pattern: score = self._score_pattern(pattern, frequency, expected_days)
Better(st, pattern, frequency) ==
    IF pattern # None THEN BetterScored(st, pattern, _score_pattern(pattern, frequency))
    ELSE st

\* The loop over FREQUENCY_DAYS.items(): st = <<best_pattern, best_score>>
RECURSIVE BestFrom(_, _, _, _, _)
BestFrom(k, description, txs, confidence_pass, st) ==
    IF k > Len(Frequencies) THEN st
    ELSE BestFrom(k + 1, description, txs, confidence_pass,
                  Better(st, _detect_pattern(description, txs, Frequencies[k], confidence_pass),
                         Frequencies[k]))

\* return [best_pattern] if best_pattern else []
ReturnBest(best) == IF best[1] # None THEN <<best[1]>> ELSE <<>>

_find_patterns_in_group(description, transactions, confidence_pass) ==
    ReturnBest(BestFrom(1, description, SortByDate(transactions), confidence_pass,
                        <<None, Rat(-1, 1)>>))

----------------------------------------------------------------------------
(* Python string operations on sequences of characters *)

\* the ASCII letters
Letters ==
    [upper |-> <<"A", "B", "C", "D", "E", "F", "G", "H", "I", "J", "K", "L", "M",
                 "N", "O", "P", "Q", "R", "S", "T", "U", "V", "W", "X", "Y", "Z">>,
     lower |-> <<"a", "b", "c", "d", "e", "f", "g", "h", "i", "j", "k", "l", "m",
                 "n", "o", "p", "q", "r", "s", "t", "u", "v", "w", "x", "y", "z">>]

\* str.lower()
Lower(str) ==
    [i \in 1..Len(str) |->
        IF \E k \in 1..26 : Letters.upper[k] = str[i]
        THEN Letters.lower[CHOOSE k \in 1..26 : Letters.upper[k] = str[i]]
        ELSE str[i]]

\* str.upper()
Upper(str) ==
    [i \in 1..Len(str) |->
        IF \E k \in 1..26 : Letters.lower[k] = str[i]
        THEN Letters.upper[CHOOSE k \in 1..26 : Letters.lower[k] = str[i]]
        ELSE str[i]]

\* str.strip()
RECURSIVE LStrip(_)
LStrip(str) ==
    IF str # <<>> /\ Head(str) = " " THEN LStrip(Tail(str)) ELSE str

RECURSIVE RStrip(_)
RStrip(str) ==
    IF str # <<>> /\ str[Len(str)] = " "
    THEN RStrip(SubSeq(str, 1, Len(str) - 1))
    ELSE str

Strip(str) == RStrip(LStrip(str))

\* sub in str
Contains(sub, str) ==
    \E i \in 1..(Len(str) + 1) :
        /\ i + Len(sub) - 1 <= Len(str)
        /\ SubSeq(str, i, i + Len(sub) - 1) = sub

\* str.replace(sub, '') for a non-empty sub
RECURSIVE Remove(_, _)
Remove(str, sub) ==
    IF str = <<>> THEN <<>>
    ELSE IF Len(sub) <= Len(str) /\ SubSeq(str, 1, Len(sub)) = sub
    THEN Remove(SubSeq(str, Len(sub) + 1, Len(str)), sub)
    ELSE <<Head(str)>> \o Remove(Tail(str), sub)

\* str.split(): the list of whitespace-separated words
RECURSIVE SplitFrom(_, _)
SplitFrom(str, word) ==
    IF str = <<>> THEN (IF word = <<>> THEN <<>> ELSE <<word>>)
    ELSE IF Head(str) = " "
    THEN (IF word = <<>> THEN <<>> ELSE <<word>>) \o SplitFrom(Tail(str), <<>>)
    ELSE SplitFrom(Tail(str), Append(word, Head(str)))

\* ' '.join(words)
RECURSIVE Join(_)
Join(words) ==
    IF words = <<>> THEN <<>>
    ELSE IF Len(words) = 1 THEN words[1]
    ELSE words[1] \o <<" ">> \o Join(Tail(words))

WordSet(str) == LET w == SplitFrom(str, <<>>) IN {w[i] : i \in 1..Len(w)}

----------------------------------------------------------------------------
(* Description and merchant matching *)

\* the loop over ['.com', '.co.uk', '.de', '.at', '.ch', '.fr', '.es', '.it', '.nl']
RECURSIVE RemoveSuffixes(_, _)
RemoveSuffixes(desc, k) ==
    LET suffixes ==
            <<<<".", "c", "o", "m">>, <<".", "c", "o", ".", "u", "k">>, <<".", "d", "e">>,
              <<".", "a", "t">>, <<".", "c", "h">>, <<".", "f", "r">>, <<".", "e", "s">>,
              <<".", "i", "t">>, <<".", "n", "l">>>>
    IN  IF k > Len(suffixes) THEN desc
        ELSE RemoveSuffixes(Remove(desc, suffixes[k]), k + 1)

\* re.sub(r'[\d\-\._:/]', '', ...), ' '.join(desc.split()), desc[:50]
_normalize_description(desc) ==
    IF desc = <<>> THEN <<"u", "n", "k", "n", "o", "w", "n">>
    ELSE LET lowered == Strip(Lower(desc))
             nosuffix == RemoveSuffixes(lowered, 1)
             cleaned == SelectSeq(nosuffix, LAMBDA c : c \notin
                 {"0", "1", "2", "3", "4", "5", "6", "7", "8", "9", "-", ".", "_", ":", "/"})
             collapsed == Join(SplitFrom(cleaned, <<>>))
         IN  SubSeq(collapsed, 1, IF Len(collapsed) < 50 THEN Len(collapsed) ELSE 50)

\* overlap = len(words1 & words2) / max(len(words1), len(words2)) >= num/den
WordOverlapAtLeast(s1, s2, num, den) ==
    LET words1 == WordSet(s1)
        words2 == WordSet(s2)
    IN  IF words1 = {} \/ words2 = {} THEN FALSE
        ELSE den * Cardinality(words1 \cap words2)
                >= num * (IF Cardinality(words1) >= Cardinality(words2)
                          THEN Cardinality(words1) ELSE Cardinality(words2))

_descriptions_match(desc1, desc2) ==
    \/ desc1 = desc2
    \/ Contains(desc1, desc2)
    \/ Contains(desc2, desc1)
    \/ WordOverlapAtLeast(desc1, desc2, 5, 10)

_merchants_match(merchant1, merchant2) ==
    \/ merchant1 = merchant2
    \/ Contains(merchant1, merchant2)
    \/ Contains(merchant2, merchant1)
    \/ WordOverlapAtLeast(merchant1, merchant2, 7, 10)

----------------------------------------------------------------------------
(* Grouping passes.  A Python dict is a sequence of [key, value] entries in  *)
(* insertion order; a value's format field is its Python type (dict / list). *)

Range(seq) == {seq[i] : i \in 1..Len(seq)}

DictHas(d, key) == \E i \in 1..Len(d) : d[i].key = key

DictIndex(d, key) == CHOOSE i \in 1..Len(d) : d[i].key = key

\* d[key] = value
DictSet(d, key, value) ==
    IF DictHas(d, key)
    THEN [d EXCEPT ![DictIndex(d, key)] = [key |-> key, value |-> value]]
    ELSE Append(d, [key |-> key, value |-> value])

\* d.update(other)
RECURSIVE DictUpdate(_, _)
DictUpdate(d, other) ==
    IF other = <<>> THEN d
    ELSE DictUpdate(DictSet(d, Head(other).key, Head(other).value), Tail(other))

\* defaultdict(list): d[key].append(tx)
DictAppend(d, key, tx) ==
    IF DictHas(d, key)
    THEN [d EXCEPT ![DictIndex(d, key)].value = Append(@, tx)]
    ELSE Append(d, [key |-> key, value |-> <<tx>>])

RECURSIVE PartnerLoop(_, _)
PartnerLoop(txs, grouped_) ==
    IF txs = <<>> THEN grouped_
    ELSE LET tx == Head(txs)
             partner_iban == Upper(Strip(tx.partner_iban))
             partner_name == Lower(Strip(tx.partner_name))
             payment_method == Lower(Strip(tx.payment_method))
             key == <<"p", "a", "r", "t", "n", "e", "r", ":">> \o partner_iban
                        \o <<":">> \o partner_name \o <<":">> \o payment_method
         IN  IF partner_iban = <<>> \/ partner_name = <<>>
             THEN PartnerLoop(Tail(txs), grouped_)
             ELSE PartnerLoop(Tail(txs), DictAppend(grouped_, key, tx))

\* Only groups with 2+ occurrences, wrapped with metadata
Wrap(d, confidence_pass, match_type) ==
    LET kept == SelectSeq(d, LAMBDA e : Len(e.value) >= 2)
    IN  [i \in 1..Len(kept) |->
            [key |-> kept[i].key,
             value |-> [format |-> "dict",
                        transactions |-> kept[i].value,
                        confidence_pass |-> confidence_pass,
                        match_type |-> match_type]]]

_group_by_partner_info(txs) == Wrap(PartnerLoop(txs, <<>>), 1, "partner_info")

\* the transactions at the indices js, in index order
RECURSIVE SeqOfIndices(_, _)
SeqOfIndices(txs, js) ==
    IF js = {} THEN <<>>
    ELSE LET j == CHOOSE x \in js : \A y \in js : x <= y
         IN  <<txs[j]>> \o SeqOfIndices(txs, js \ {j})

MerchantFieldsMatch(tx, other) ==
    /\ _merchants_match(Lower(Strip(tx.merchant_name)), Lower(Strip(other.merchant_name)))
    /\ Lower(Strip(tx.payment_method)) = Lower(Strip(other.payment_method))
    /\ Lower(Strip(tx.card_brand)) = Lower(Strip(other.card_brand))

RECURSIVE MerchantLoop(_, _, _, _)
MerchantLoop(txs, i, processed, grouped_) ==
    IF i > Len(txs) THEN grouped_
    ELSE IF i \in processed THEN MerchantLoop(txs, i + 1, processed, grouped_)
    ELSE LET tx == txs[i]
             merchant_name == Lower(Strip(tx.merchant_name))
             payment_method == Lower(Strip(tx.payment_method))
             card_brand == Lower(Strip(tx.card_brand))
             js == {j \in (i + 1)..Len(txs) :
                       j \notin processed /\ MerchantFieldsMatch(tx, txs[j])}
             grp == <<tx>> \o SeqOfIndices(txs, js)
             key == <<"m", "e", "r", "c", "h", "a", "n", "t", ":">> \o merchant_name
                        \o <<":">> \o payment_method \o <<":">> \o card_brand
         IN  IF merchant_name = <<>>
             THEN MerchantLoop(txs, i + 1, processed, grouped_)
             ELSE MerchantLoop(txs, i + 1, processed \cup {i} \cup js,
                               IF Len(grp) >= 2 THEN DictSet(grouped_, key, grp)
                               ELSE grouped_)

_group_by_merchant_info(txs) ==
    Wrap(MerchantLoop(txs, 1, {}, <<>>), 2, "merchant_info")

RECURSIVE DescriptionLoop(_, _, _, _)
DescriptionLoop(txs, i, processed, grouped_) ==
    IF i > Len(txs) THEN grouped_
    ELSE IF i \in processed THEN DescriptionLoop(txs, i + 1, processed, grouped_)
    ELSE LET tx == txs[i]
             description == _normalize_description(tx.description)
             js == {j \in (i + 1)..Len(txs) :
                       /\ j \notin processed
                       /\ _descriptions_match(description,
                                              _normalize_description(txs[j].description))}
             grp == <<tx>> \o SeqOfIndices(txs, js)
         IN  DescriptionLoop(txs, i + 1, processed \cup {i} \cup js,
                             IF Len(grp) >= 2 THEN DictSet(grouped_, description, grp)
                             ELSE grouped_)

\* returns plain lists: {k: v for k, v in grouped.items() if len(v) >= 2}
_group_by_description(txs) ==
    LET kept == SelectSeq(DescriptionLoop(txs, 1, {}, <<>>), LAMBDA e : Len(e.value) >= 2)
    IN  [i \in 1..Len(kept) |->
            [key |-> kept[i].key,
             value |-> [format |-> "list", transactions |-> kept[i].value]]]

RECURSIVE _get_all_grouped_txs(_)
_get_all_grouped_txs(d) ==
    IF d = <<>> THEN <<>>
    ELSE Head(d).value.transactions \o _get_all_grouped_txs(Tail(d))

\* [t for t in txs if t not in self._get_all_grouped_txs(d)]
NotIn(txs, d) ==
    LET taken == Range(_get_all_grouped_txs(d))
    IN  SelectSeq(txs, LAMBDA t : t \notin taken)

\* Variant: the transactions claimed by pass 1 are not removed
Pass1Result_NoFilter(txs, grouped1) == [grouped |-> grouped1, ungrouped |-> txs]

\* ungrouped = [t for t in self.transactions if t not in grouped]
Pass1Result(txs, grouped1) == [grouped |-> grouped1, ungrouped |-> NotIn(txs, grouped1)]

Pass2Result(st, grouped_by_merchant) ==
    [grouped |-> DictUpdate(st.grouped, grouped_by_merchant),
     ungrouped |-> NotIn(st.ungrouped, grouped_by_merchant)]

\* Pass 2: if ungrouped: group the remaining by merchant information
Pass2Step(st) ==
    IF st.ungrouped # <<>>
    THEN Pass2Result(st, _group_by_merchant_info(st.ungrouped))
    ELSE st

\* Pass 3: if ungrouped: group the remaining by description
Pass3Step(st) ==
    IF st.ungrouped # <<>>
    THEN DictUpdate(st.grouped, _group_by_description(st.ungrouped))
    ELSE st.grouped

\* Lines 136-155 of detect(): the candidate groups of the three passes
GroupingPasses(txs) ==
    Pass3Step(Pass2Step(Pass1Result(txs, DictUpdate(<<>>, _group_by_partner_info(txs)))))

----------------------------------------------------------------------------
(* detect() *)

AccountId == 1

Today == 365

\* detect_recurring_transactions_task(account_id, days_back=365)
DaysBack == 365

\* Variant: the queryset has no date__gte=start_date filter
LoadTransactions_AnyDate(db, account_id, days_back) ==
    SortByDate(SelectSeq(db, LAMBDA t :
        /\ t.account_id = account_id
        /\ t.type \in {"expense", "income"}))

\* Transaction.objects.filter(account_id=..., date__gte=start_date,
\*     type__in=['expense', 'income']).order_by('date')
LoadTransactions(db, account_id, days_back) ==
    SortByDate(SelectSeq(db, LAMBDA t :
        /\ t.account_id = account_id
        /\ t.date >= Today - days_back
        /\ t.type \in {"expense", "income"}))

\* key=lambda p: (p.confidence_score, p.occurrence_count); list.sort(reverse=True)
\* is stable: equal keys keep their order
RECURSIVE InsertDesc(_, _)
InsertDesc(p, s) ==
    IF s = <<>> THEN <<p>>
    ELSE IF \/ RLt(Head(s).confidence_score, p.confidence_score)
            \/ /\ Head(s).confidence_score = p.confidence_score
               /\ Head(s).occurrence_count < p.occurrence_count
    THEN <<p>> \o s
    ELSE <<Head(s)>> \o InsertDesc(p, Tail(s))

RECURSIVE SortPatterns(_)
SortPatterns(s) ==
    IF s = <<>> THEN <<>>
    ELSE InsertDesc(s[Len(s)], SortPatterns(SubSeq(s, 1, Len(s) - 1)))

\* the loop over grouped.items(): self.patterns.extend(...)
RECURSIVE PatternsOfGroups(_)
PatternsOfGroups(d) ==
    IF d = <<>> THEN <<>>
    ELSE LET group_info == Head(d).value
             transactions == group_info.transactions
             confidence_pass ==
                 IF group_info.format = "dict" THEN group_info.confidence_pass ELSE 3
         IN  (IF Len(transactions) < 2 THEN <<>>
              ELSE _find_patterns_in_group(Head(d).key, transactions, confidence_pass))
             \o PatternsOfGroups(Tail(d))

\* return self.patterns
DetectReturn(sorted, groups) == <<sorted, sorted, groups>>

\* the loop over the groups, then self.patterns.sort(...)
DetectGrouped(groups, self_patterns) ==
    DetectReturn(SortPatterns(self_patterns \o PatternsOfGroups(groups)), groups)

\* if not raw_transactions: return []
DetectLoaded(raw_transactions, self_patterns) ==
    IF raw_transactions = <<>> THEN <<<<>>, self_patterns, <<>>>>
    ELSE DetectGrouped(GroupingPasses(raw_transactions), self_patterns)

\* detect(): <<returned list, self.patterns, grouped>>
detect(db, account_id, days_back, self_patterns) ==
    DetectLoaded(LoadTransactions(db, account_id, days_back), self_patterns)

----------------------------------------------------------------------------
(* detect_recurring_transactions_task and RecurringTransaction.objects *)

\* DecimalField(max_digits=12, decimal_places=2): the value is quantized to
\* whole cents, rounding half to even
QuantizeCents(r) ==
    LET q == r[1] \div r[2]
        rem == r[1] - q * r[2]
    IN  IF 2 * rem < r[2] THEN q
        ELSE IF 2 * rem > r[2] THEN q + 1
        ELSE IF q % 2 = 0 THEN q ELSE q + 1

UserId == 1

\* Variant: the lookup by account and description only
RowMatches_AnyFrequency(row, account, description, frequency) ==
    /\ row.account = account
    /\ row.description = description

RowMatches(row, account, description, frequency) ==
    /\ row.account = account
    /\ row.description = description
    /\ row.frequency = frequency

\* Variant: objects.create(...) on every pattern, no lookup of an existing row
update_or_create_AlwaysCreate(table, account, pattern) ==
    <<Append(table,
         [id |-> Len(table) + 1, account |-> account,
          description |-> pattern.description, frequency |-> pattern.frequency,
          user_id |-> UserId, merchant_name |-> <<>>,
          amount |-> QuantizeCents(pattern.amount),
          next_expected_date |-> pattern.next_expected_date,
          last_occurrence_date |-> pattern.last_occurrence_date,
          occurrence_count |-> pattern.occurrence_count,
          confidence_score |-> pattern.confidence_score,
          similar_descriptions |-> pattern.similar_descriptions,
          transaction_ids |-> pattern.transaction_ids,
          is_active |-> TRUE, display_name |-> <<>>, is_ignored |-> FALSE,
          user_notes |-> <<>>]),
      TRUE>>

\* Variant: an update saves a fresh instance, the user's fields at their
\* defaults
update_or_create_ResetsUserFields(table, account, pattern) ==
    IF \E i \in 1..Len(table) :
           RowMatches(table[i], account, pattern.description, pattern.frequency)
    THEN <<[i \in 1..Len(table) |->
               IF RowMatches(table[i], account, pattern.description, pattern.frequency)
               THEN [update_or_create_AlwaysCreate(<<>>, account, pattern)[1][1]
                     EXCEPT !.id = table[i].id]
               ELSE table[i]],
           FALSE>>
    ELSE update_or_create_AlwaysCreate(table, account, pattern)

\* RecurringTransaction.objects.update_or_create(account=, description=,
\*     frequency=, defaults={...}): <<rows, created>>
update_or_create(table, account, pattern) ==
    LET hit == {i \in 1..Len(table) :
                   RowMatches(table[i], account, pattern.description, pattern.frequency)}
        defaults ==
            [user_id |-> UserId,
             merchant_name |-> <<>>,
             amount |-> QuantizeCents(pattern.amount),
             next_expected_date |-> pattern.next_expected_date,
             last_occurrence_date |-> pattern.last_occurrence_date,
             occurrence_count |-> pattern.occurrence_count,
             confidence_score |-> pattern.confidence_score,
             similar_descriptions |-> pattern.similar_descriptions,
             transaction_ids |-> pattern.transaction_ids,
             is_active |-> TRUE]
    IN  IF hit # {}
        THEN LET i == CHOOSE x \in hit : \A y \in hit : x <= y
             IN  <<[table EXCEPT ![i] =
                       [f \in DOMAIN table[i] |->
                           IF f \in DOMAIN defaults THEN defaults[f] ELSE table[i][f]]],
                   FALSE>>
        ELSE <<Append(table,
                  [f \in DOMAIN defaults \cup
                         {"id", "account", "description", "frequency",
                          "display_name", "is_ignored", "user_notes"} |->
                      CASE f \in DOMAIN defaults -> defaults[f]
                        [] f = "id" -> Len(table) + 1
                        [] f = "account" -> account
                        [] f = "description" -> pattern.description
                        [] f = "frequency" -> pattern.frequency
                        [] f = "display_name" -> <<>>
                        [] f = "is_ignored" -> FALSE
                        [] f = "user_notes" -> <<>>]),
               TRUE>>

\* the whole loop `for pattern in patterns`: the rows afterwards
RECURSIVE UpsertAll(_, _, _)
UpsertAll(table, account, ps) ==
    IF ps = <<>> THEN table
    ELSE UpsertAll(update_or_create(table, account, Head(ps))[1], account, Tail(ps))

\* patterns = detector.detect(days_back=days_back)
DetectorReturned(d) ==
    /\ patterns' = d[1]
    /\ grouped' = d[3]

\* account lookup, RecurringTransactionDetector(account_id), detect()
TaskDetect ==
    /\ pc = "start"
    /\ DetectorReturned(detect(store, AccountId, DaysBack, <<>>))
    /\ created_count' = 0
    /\ updated_count' = 0
    /\ idx' = 1
    /\ pc' = "upsert"
    /\ UNCHANGED <<store, rows, runs, detections, request>>
    /\ UNCHANGED pvars
    /\ UNCHANGED avars

\* one iteration of `for pattern in patterns`
TaskUpsert ==
    /\ pc = "upsert"
    /\ idx <= Len(patterns)
    /\ LET r == update_or_create(rows, AccountId, patterns[idx])
       IN  /\ rows' = r[1]
           /\ created_count' = IF r[2] THEN created_count + 1 ELSE created_count
           /\ updated_count' = IF r[2] THEN updated_count ELSE updated_count + 1
    /\ idx' = idx + 1
    /\ UNCHANGED <<store, grouped, patterns, pc, runs, detections, request>>
    /\ UNCHANGED pvars
    /\ UNCHANGED avars

\* the loop is exhausted and the task returns
TaskReturn ==
    /\ pc = "upsert"
    /\ idx > Len(patterns)
    /\ pc' = "done"
    /\ runs' = runs + 1
    /\ UNCHANGED <<store, grouped, patterns, rows, idx, created_count, updated_count,
                   detections, request>>
    /\ UNCHANGED pvars
    /\ UNCHANGED avars

\* the task is queued again for the same account
TaskQueued ==
    /\ pc = "done"
    /\ runs < MaxRuns
    /\ pc' = "start"
    /\ UNCHANGED <<store, grouped, patterns, rows, idx, runs, created_count, updated_count,
                   detections, request>>
    /\ UNCHANGED pvars
    /\ UNCHANGED avars

----------------------------------------------------------------------------
(* Anomaly, AnomalyNotification, UserAnomalyPreferences.  The clock `now`   *)
(* counts hours; day numbers follow a calendar of 365-day years whose day 0 *)
(* is a 1 January.                                                          *)

AnomalyTypes ==
    {"unusual_amount", "unusual_timing", "duplicate_pattern", "missing_recurring",
     "changed_recurring", "spending_spike", "new_merchant", "account_inactive",
     "multiple_failures"}

\* a null foreign key (transaction, recurring, category)
Null == 0

Users == {1, 2}

\* A UserAnomalyPreferences row with the field defaults, enabled_types as
\* _get_or_create_preferences fills it for a new row
DefaultPreferences ==
    [anomaly_detection_enabled |-> TRUE,
     email_notifications |-> FALSE,
     push_notifications |-> TRUE,
     sensitivity |-> "medium",
     enabled_types |-> AnomalyTypes,
     spending_spike_multiplier |-> Rat(2, 1),
     days_before_inactive |-> 30]

\* Anomaly(user=, account=, transaction=, recurring=, anomaly_type=, severity=,
\*         anomaly_score=): an unsaved instance
Anomaly(user, account, transaction, recurring, anomaly_type, severity, anomaly_score) ==
    [user |-> user, account |-> account, transaction |-> transaction,
     recurring |-> recurring, anomaly_type |-> anomaly_type,
     severity |-> severity, anomaly_score |-> anomaly_score]

\* an Optional[Anomaly] appended to a list when it is not None
Opt(anomaly) == IF anomaly # None THEN <<anomaly>> ELSE <<>>

\* <<month, day of the month - 1>> of the day of the year, counting from month m
RECURSIVE MonthFrom(_, _)
MonthFrom(m, day_of_year) ==
    LET lengths == <<31, 28, 31, 30, 31, 30, 31, 31, 30, 31, 30, 31>>
    IN  IF day_of_year < lengths[m] THEN <<m, day_of_year>>
        ELSE MonthFrom(m + 1, day_of_year - lengths[m])

\* date.replace(day=1)
MonthStart(d) == d - MonthFrom(1, d % 365)[2]

(* _detect_unusual_amount.  The statistics are kept free of roots: for n     *)
(* historical amounts with sum S and sum of squares Q, V = n * Q - S * S is  *)
(* zero exactly when stdev is, and with dev = n * current - S the z-score    *)
(* satisfies z * z = dev * dev * (n - 1) / (n * V).                          *)

\* UserAnomalyPreferences.get_minimum_score_for_severity
get_minimum_score_for_severity(prefs) ==
    CASE prefs.sensitivity = "low" -> 90
      [] prefs.sensitivity = "high" -> 50
      [] OTHER -> 70

\* Variant: the historical queryset has no date__gte filter
UnusualHistory_AnyDate(db, account, transaction) ==
    {i \in 1..Len(db) :
        /\ db[i].account_id = account
        /\ db[i].type = transaction.type
        /\ db[i].id # transaction.id
        /\ IF transaction.merchant_name # <<>>
           THEN db[i].merchant_name = transaction.merchant_name
           ELSE IF transaction.category_id # Null
           THEN db[i].category_id = transaction.category_id
           ELSE LET prefix == SubSeq(transaction.description, 1,
                                     IF Len(transaction.description) < 20
                                     THEN Len(transaction.description) ELSE 20)
                IN  /\ Len(db[i].description) >= Len(prefix)
                    /\ Lower(SubSeq(db[i].description, 1, Len(prefix))) = Lower(prefix)}

\* historical: the rows of the transaction's merchant_name, else of its
\* category, else those whose description starts (whatever the case) with the
\* first 20 characters of its description; same account and type, not older
\* than lookback_days = 180, the transaction itself excluded
UnusualHistory(db, account, transaction) ==
    {i \in 1..Len(db) :
        /\ db[i].account_id = account
        /\ db[i].type = transaction.type
        /\ db[i].date >= Today - 180
        /\ db[i].id # transaction.id
        /\ IF transaction.merchant_name # <<>>
           THEN db[i].merchant_name = transaction.merchant_name
           ELSE IF transaction.category_id # Null
           THEN db[i].category_id = transaction.category_id
           ELSE LET prefix == SubSeq(transaction.description, 1,
                                     IF Len(transaction.description) < 20
                                     THEN Len(transaction.description) ELSE 20)
                IN  /\ Len(db[i].description) >= Len(prefix)
                    /\ Lower(SubSeq(db[i].description, 1, Len(prefix))) = Lower(prefix)}

\* z_score >= tenths / 10
ZAtLeast(n, dev, V, tenths) ==
    100 * dev * dev * (n - 1) >= tenths * tenths * n * V

\* stdev == 0: flagged when abs(current - mean) > abs(mean) * 0.5, with
\* confidence 60.  Otherwise flagged when z_score > 2.0 and confidence =
\* min(100, 50 + z_score * 10) is not below min_score; anomaly_score keeps the
\* integer part of the confidence
UnusualScored(prefs, user, account, transaction, n, S, dev, V) ==
    IF V = 0
    THEN (IF 2 * Abs(dev) > Abs(S)
          THEN Anomaly(user, account, transaction.id, Null, "unusual_amount",
                       "warning", Rat(60, 1))
          ELSE None)
    ELSE IF dev * dev * (n - 1) > 4 * n * V
    THEN (IF ~ZAtLeast(n, dev, V, get_minimum_score_for_severity(prefs) - 50)
          THEN None
          ELSE Anomaly(user, account, transaction.id, Null, "unusual_amount",
                       IF ZAtLeast(n, dev, V, 40) THEN "critical" ELSE "warning",
                       Rat(CHOOSE k \in 50..100 :
                               /\ ZAtLeast(n, dev, V, k - 50)
                               /\ k < 100 => ~ZAtLeast(n, dev, V, k - 49),
                           1)))
    ELSE None

\* amounts = [float(t.amount) for t in historical]
UnusualOfAmounts(prefs, user, account, transaction, amounts) ==
    IF Len(amounts) < 2 THEN None
    ELSE UnusualScored(prefs, user, account, transaction, Len(amounts), SumSeq(amounts),
             Len(amounts) * transaction.amount - SumSeq(amounts),
             Len(amounts) * SumSeq([i \in 1..Len(amounts) |-> amounts[i] * amounts[i]])
                 - SumSeq(amounts) * SumSeq(amounts))

_detect_unusual_amount(prefs, db, user, account, transaction) ==
    IF /\ transaction.merchant_name = <<>>
       /\ transaction.category_id = Null
       /\ transaction.description = <<>>
    THEN None
    ELSE UnusualOfAmounts(prefs, user, account, transaction,
             LET h == SeqOfIndices(db, UnusualHistory(db, account, transaction))
             IN  [i \in 1..Len(h) |-> h[i].amount])

(* detect_all_anomalies_for_transaction and its checks *)

_detect_duplicate_pattern(db, user, account, transaction) ==
    IF \E i \in 1..Len(db) :
          /\ db[i].account_id = account
          /\ db[i].date >= Today - 7
          /\ db[i].date < transaction.date
          /\ db[i].amount = transaction.amount
          /\ db[i].type = transaction.type
          /\ db[i].id # transaction.id
    THEN Anomaly(user, account, transaction.id, Null, "duplicate_pattern",
                 "warning", Rat(75, 1))
    ELSE None

_detect_new_merchant(db, user, account, transaction) ==
    IF transaction.merchant_name = <<>> THEN None
    ELSE IF ~ \E i \in 1..Len(db) :
                 /\ db[i].account_id = account
                 /\ db[i].merchant_name = transaction.merchant_name
                 /\ db[i].id # transaction.id
    THEN Anomaly(user, account, transaction.id, Null, "new_merchant",
                 "info", Rat(50, 1))
    ELSE None

\* self.account = transaction.account; the list `anomalies` that is returned:
\* expenses over 500 or other transactions over 1000 (amounts in cents), then
\* the duplicate-pattern and the new-merchant check
detect_all_anomalies_for_transaction(prefs, db, user, transaction) ==
    IF ~prefs.anomaly_detection_enabled THEN <<>>
    ELSE (IF /\ "unusual_amount" \in prefs.enabled_types
             /\ \/ transaction.type = "expense" /\ Abs(transaction.amount) > 50000
                \/ transaction.type # "expense" /\ Abs(transaction.amount) > 100000
          THEN <<Anomaly(user, transaction.account_id, transaction.id, Null,
                         "unusual_amount", "info", Rat(60, 1))>>
          ELSE <<>>)
         \o (IF "duplicate_pattern" \in prefs.enabled_types
             THEN Opt(_detect_duplicate_pattern(db, user, transaction.account_id, transaction))
             ELSE <<>>)
         \o (IF "new_merchant" \in prefs.enabled_types
             THEN Opt(_detect_new_merchant(db, user, transaction.account_id, transaction))
             ELSE <<>>)

(* The account-level and recurring-level detectors *)

\* the anomaly of detect_spending_spike: current_spending and avg_monthly are
\* counts of transactions (Count('amount'))
SpikeAnomaly(prefs, user, account, current_spending, avg_monthly) ==
    IF RLt(RMul(avg_monthly, prefs.spending_spike_multiplier), Rat(current_spending, 1))
    THEN Anomaly(user, account, Null, Null, "spending_spike", "warning",
                 RMin(Rat(100, 1),
                      RAdd(Rat(50, 1),
                           RMul(Rat(current_spending * avg_monthly[2], avg_monthly[1]),
                                Rat(20, 1)))))
    ELSE None

\* historical: the category's expenses of the last 180 days before this month
SpikeHistory(db, account, category) ==
    {i \in 1..Len(db) :
        /\ db[i].account_id = account
        /\ db[i].category_id = category
        /\ db[i].type = "expense"
        /\ db[i].date >= Today - 180
        /\ db[i].date < MonthStart(Today)}

\* current_spending counts this month's expenses of the category; avg_monthly =
\* sum(h['total'] for h in historical) / len(historical), one entry of
\* historical per date__month
detect_spending_spike(prefs, db, user, account, category) ==
    IF category = Null THEN None
    ELSE IF SpikeHistory(db, account, category) = {} THEN None
    ELSE SpikeAnomaly(prefs, user, account,
             Cardinality({i \in 1..Len(db) :
                             /\ db[i].account_id = account
                             /\ db[i].category_id = category
                             /\ db[i].date >= MonthStart(Today)
                             /\ db[i].type = "expense"}),
             Rat(Cardinality(SpikeHistory(db, account, category)),
                 Cardinality({MonthFrom(1, db[i].date % 365)[1] :
                                 i \in SpikeHistory(db, account, category)})))

\* Variant: a payment is missing from its due date on (now >= next_expected_date)
detect_missing_recurring_OnDueDate(user, account, recurring) ==
    IF recurring.is_ignored \/ ~recurring.is_active THEN None
    ELSE IF Today >= recurring.next_expected_date
    THEN LET days_overdue == Today - recurring.next_expected_date
         IN  Anomaly(user, account, Null, recurring.id, "missing_recurring",
                     IF days_overdue > 7 THEN "critical" ELSE "warning",
                     Rat(IF 60 + days_overdue * 2 < 100 THEN 60 + days_overdue * 2 ELSE 100, 1))
    ELSE None

\* anomaly_score = min(100, 60 + days_overdue * 2)
detect_missing_recurring(user, account, recurring) ==
    IF recurring.is_ignored \/ ~recurring.is_active THEN None
    ELSE IF Today > recurring.next_expected_date
    THEN LET days_overdue == Today - recurring.next_expected_date
         IN  Anomaly(user, account, Null, recurring.id, "missing_recurring",
                     IF days_overdue > 7 THEN "critical" ELSE "warning",
                     Rat(IF 60 + days_overdue * 2 < 100 THEN 60 + days_overdue * 2 ELSE 100, 1))
    ELSE None

ChangedAnomaly(db, user, account, recurring, recent_transactions) ==
    IF Cardinality(recent_transactions) < 2 THEN None
    ELSE IF \E i, j \in recent_transactions : db[i].amount # db[j].amount
    THEN Anomaly(user, account, Null, recurring.id, "changed_recurring",
                 "warning", Rat(75, 1))
    ELSE None

\* recent_transactions: order_by('-date')[:5] of the merchant's expenses of the
\* last 90 days, as the set of their positions
detect_changed_recurring(db, user, account, recurring) ==
    ChangedAnomaly(db, user, account, recurring,
        {i \in 1..Len(db) :
            /\ db[i].account_id = account
            /\ db[i].merchant_name = recurring.merchant_name
            /\ db[i].type = "expense"
            /\ db[i].date >= Today - 90
            /\ Cardinality({j \in 1..Len(db) :
                               /\ db[j].account_id = account
                               /\ db[j].merchant_name = recurring.merchant_name
                               /\ db[j].type = "expense"
                               /\ db[j].date >= Today - 90
                               /\ \/ db[j].date > db[i].date
                                  \/ db[j].date = db[i].date /\ j > i}) < 5})

\* last_transaction is the account's latest transaction: its date is before the
\* threshold exactly when every date of the account is
detect_account_inactive(prefs, db, user, account) ==
    IF ~ \E i \in 1..Len(db) : db[i].account_id = account THEN None
    ELSE IF \A i \in 1..Len(db) :
                db[i].account_id = account => db[i].date < Today - prefs.days_before_inactive
    THEN Anomaly(user, account, Null, Null, "account_inactive", "info", Rat(50, 1))
    ELSE None

(* create_anomaly_if_new *)

\* timedelta(hours=24)
DedupWindowHours == 24

\* Variant: the window is one hour (timedelta(hours=1))
RecentExisting_HourWindow(table, anomaly, t) ==
    {e \in table :
        /\ e.user = anomaly.user
        /\ e.account = anomaly.account
        /\ e.anomaly_type = anomaly.anomaly_type
        /\ e.created_at >= t - 1}

\* Variant: the query also matches on the transaction
RecentExisting_SameTransaction(table, anomaly, t) ==
    {e \in table :
        /\ e.user = anomaly.user
        /\ e.account = anomaly.account
        /\ e.anomaly_type = anomaly.anomaly_type
        /\ e.transaction = anomaly.transaction
        /\ e.created_at >= t - DedupWindowHours}

\* Anomaly.objects.filter(user=, account=, anomaly_type=, created_at__gte=...)
RecentExisting(table, anomaly, t) ==
    {e \in table :
        /\ e.user = anomaly.user
        /\ e.account = anomaly.account
        /\ e.anomaly_type = anomaly.anomaly_type
        /\ e.created_at >= t - DedupWindowHours}

\* anomaly.save(): the row gets the next id and created_at (auto_now_add)
Saved(table, anomaly, t) ==
    [f \in DOMAIN anomaly \cup {"id", "created_at"} |->
        CASE f = "id" -> Cardinality(table) + 1
          [] f = "created_at" -> t
          [] OTHER -> anomaly[f]]

\* Variant: the e-mail flag taken from push_notifications and the push flag
\* from email_notifications
NotificationGetOrCreate_FlagsSwapped(notes, prefs, user, anomaly_id) ==
    IF \E n \in notes : n.user = user /\ n.anomaly = anomaly_id THEN notes
    ELSE notes \cup
         {[user |-> user, anomaly |-> anomaly_id, is_read |-> FALSE,
           is_notified_via_email |-> prefs[user].push_notifications,
           is_notified_via_push |-> prefs[user].email_notifications]}

\* AnomalyNotification.objects.get_or_create(user=, anomaly=, defaults={...})
NotificationGetOrCreate(notes, prefs, user, anomaly_id) ==
    IF \E n \in notes : n.user = user /\ n.anomaly = anomaly_id THEN notes
    ELSE notes \cup
         {[user |-> user, anomaly |-> anomaly_id, is_read |-> FALSE,
           is_notified_via_email |-> prefs[user].email_notifications,
           is_notified_via_push |-> prefs[user].push_notifications]}

\* the whole function, run without interruption at clock value t
create_anomaly_if_new(table, notes, prefs, anomaly, t) ==
    IF RecentExisting(table, anomaly, t) # {}
    THEN [anomalies |-> table, notifications |-> notes, returned |-> None]
    ELSE LET saved == Saved(table, anomaly, t)
         IN  [anomalies |-> table \cup {saved},
              notifications |-> NotificationGetOrCreate(notes, prefs, saved.user, saved.id),
              returned |-> saved]

(* States in which a part of the system has not run *)

TaskIdle ==
    /\ grouped = <<>>
    /\ patterns = <<>>
    /\ pc = "idle"
    /\ idx = 1
    /\ runs = 0
    /\ created_count = 0
    /\ updated_count = 0
    /\ detections = <<>>
    /\ request = [retries |-> 0, countdown |-> 0]

HarnessIdle ==
    /\ group = <<>>
    /\ result = <<>>
    /\ call_pass = 0
    /\ rule_table = {}

\* a detection run that is not inside create_anomaly_if_new
IdleRun == [pc |-> "idle", anomaly |-> None, existing |-> FALSE, seen_rows |-> 0, saved |-> None]

\* the detection runs that may overlap
Runs == {1, 2}

AnomalyIdle ==
    /\ now = 0
    /\ anomaly_table = {}
    /\ notification_table = {}
    /\ call = [count |-> 0, anomaly |-> None, returned |-> None]
    /\ run = [p \in Runs |-> IdleRun]
    /\ seen = <<>>
    /\ returned = <<>>
    /\ detector = "none"
    /\ argument = None

----------------------------------------------------------------------------
(* Transaction rows the database is loaded with *)

\* the texts the rows are written with
Str ==
    [at1 |-> <<" ", "a", "t", "1">>, AT1 |-> <<"A", "T", "1">>,
     Bo |-> <<"B", "o">>, bo |-> <<"b", "o", " ">>,
     CARD |-> <<"C", "A", "R", "D">>, sepa |-> <<"s", "e", "p", "a">>,
     card |-> <<"c", "a", "r", "d">>, visa |-> <<"v", "i", "s", "a">>,
     ab |-> <<"a", "b">>, Ab_c |-> <<"A", "b", " ", "c">>,
     rent |-> <<"r", "e", "n", "t">>, nf |-> <<"n", "f">>,
     Nf_de_12 |-> <<"N", "f", ".", "d", "e", " ", "1", "2">>, x |-> <<"x">>]

Tx(partner_iban, partner_name, payment_method, merchant_name, card_brand, description, amount, type) ==
    [partner_iban |-> partner_iban, partner_name |-> partner_name,
     payment_method |-> payment_method, merchant_name |-> merchant_name,
     card_brand |-> card_brand, description |-> description,
     amount |-> amount, type |-> type]

\* Kinds of transaction: partner transfers written two ways, one of them with
\* a merchant too; card payments at a merchant written two ways; rows with
\* only a description; a transfer between own accounts
Profiles ==
    {Tx(Str.at1, Str.Bo, Str.CARD, <<>>, <<>>, Str.rent, -999, "expense"),
     Tx(Str.AT1, Str.bo, Str.card, Str.ab, Str.visa, Str.ab, 999, "income"),
     Tx(<<>>, <<>>, Str.card, Str.ab, Str.visa, Str.x, -999, "expense"),
     Tx(<<>>, <<>>, Str.card, Str.Ab_c, Str.visa, Str.rent, -999, "expense"),
     Tx(Str.AT1, <<>>, Str.card, <<>>, Str.visa, Str.Nf_de_12, -999, "expense"),
     Tx(<<>>, <<>>, <<>>, <<>>, <<>>, Str.nf, -999, "expense"),
     Tx(Str.AT1, Str.Bo, Str.sepa, <<>>, <<>>, Str.rent, -999, "transfer")}

StoreOf(profile) ==
    [i \in 1..Len(profile) |->
        [f \in DOMAIN profile[i] \cup {"id", "date", "account_id", "category_id"} |->
            CASE f = "id" -> i
              [] f = "category_id" -> Null
              [] f = "date" -> 30 * (i - 1)
              [] f = "account_id" -> AccountId
              [] OTHER -> profile[i][f]]]

Init ==
    /\ \E n \in 0..MaxTx : \E profile \in [1..n -> Profiles] : store = StoreOf(profile)
    /\ grouped = <<>>
    /\ patterns = <<>>
    /\ rows = <<>>
    /\ pc = "start"
    /\ idx = 1
    /\ runs = 0
    /\ created_count = 0
    /\ updated_count = 0
    /\ detections = <<>>
    /\ request = [retries |-> 0, countdown |-> 0]
    /\ HarnessIdle
    /\ AnomalyIdle
    /\ preferences = [u \in Users |-> DefaultPreferences]

Next == TaskDetect \/ TaskUpsert \/ TaskReturn \/ TaskQueued

Spec == Init /\ [][Next]_vars

----------------------------------------------------------------------------
(* Calls of _find_patterns_in_group on one candidate group *)

GroupKey == <<"g">>

\* A candidate group as detect() builds it: at least 2 transactions in the
\* date order of the loaded queryset
GroupOf(gaps, amts) ==
    [i \in 1..Len(amts) |->
        [id |-> i,
         date |-> SumSeq(SubSeq(gaps, 1, i - 1)),
         amount |-> amts[i],
         description |-> GroupKey]]

PInit ==
    /\ \/ \E n \in 2..MaxGroup :
            \E gaps \in [1..(n - 1) -> {7, 14, 29, 31, 40, 90, 365}],
               amts \in {[i \in 1..n |-> -999],
                         [i \in 1..n |-> IF i % 2 = 1 THEN -999 ELSE 999],
                         [i \in 1..n |-> IF i = n THEN -1099 ELSE -999]} :
               group = GroupOf(gaps, amts)
       \/ \E gaps \in [1..MaxGroup -> {7, 14, 30}] :
            group = GroupOf(gaps, [i \in 1..(MaxGroup + 1) |-> -999])
    /\ result = <<>>
    /\ call_pass = 0
    /\ rule_table = {}
    /\ store = <<>>
    /\ rows = <<>>
    /\ TaskIdle
    /\ AnomalyIdle
    /\ preferences = [u \in Users |-> DefaultPreferences]

FindPatternsInGroup(confidence_pass) ==
    /\ call_pass = 0
    /\ call_pass' = confidence_pass
    /\ result' = _find_patterns_in_group(GroupKey, group, confidence_pass)
    /\ UNCHANGED <<group, rule_table>>
    /\ UNCHANGED tvars
    /\ UNCHANGED avars

PNext == \E confidence_pass \in 1..3 : FindPatternsInGroup(confidence_pass)

SpecPattern == PInit /\ [][PNext]_vars

----------------------------------------------------------------------------
(* create_anomaly_if_new, one call after the other *)

\* the score and severity the transaction-level checks give each type
CandidateAnomalies ==
    {Anomaly(u, AccountId, t, Null, "unusual_amount", "info", Rat(60, 1)) :
        u \in Users, t \in 1..2}
    \cup {Anomaly(u, AccountId, t, Null, "new_merchant", "info", Rat(50, 1)) :
        u \in Users, t \in 1..2}

SeqInit ==
    /\ AnomalyIdle
    /\ \E email, push \in BOOLEAN :
          preferences =
              [u \in Users |->
                  IF u = UserId
                  THEN [DefaultPreferences EXCEPT !.email_notifications = email,
                                                  !.push_notifications = push]
                  ELSE DefaultPreferences]
    /\ store = <<>>
    /\ rows = <<>>
    /\ TaskIdle
    /\ HarnessIdle

\* the caller receives r; seen records how many Anomaly rows existed when the
\* query of a saved row's call ran
CallReturned(anomaly, r) ==
    /\ anomaly_table' = r.anomalies
    /\ notification_table' = r.notifications
    /\ call' = [count |-> call.count + 1, anomaly |-> anomaly, returned |-> r.returned]
    /\ seen' = IF r.returned # None THEN Append(seen, Cardinality(anomaly_table)) ELSE seen

CreateAnomalyIfNew(anomaly) ==
    /\ call.count < MaxCalls
    /\ CallReturned(anomaly,
           create_anomaly_if_new(anomaly_table, notification_table, preferences, anomaly, now))
    /\ UNCHANGED <<now, preferences, run, returned, detector, argument>>
    /\ UNCHANGED tvars
    /\ UNCHANGED pvars

\* twelve hours pass
Tick ==
    /\ now < 12 * MaxTicks
    /\ now' = now + 12
    /\ UNCHANGED <<anomaly_table, notification_table, preferences, call, run, seen,
                   returned, detector, argument>>
    /\ UNCHANGED tvars
    /\ UNCHANGED pvars

SeqNext ==
    \/ \E anomaly \in CandidateAnomalies : CreateAnomalyIfNew(anomaly)
    \/ Tick

SpecSeq == SeqInit /\ [][SeqNext]_vars

----------------------------------------------------------------------------
(* create_anomaly_if_new called by two detection runs that may overlap: the *)
(* query, the save and the notification are separate database statements    *)

\* existing = Anomaly.objects.filter(...).first()
RaceQuery(p, anomaly) ==
    /\ run[p].pc = "idle"
    /\ call.count < MaxCalls
    /\ run' = [run EXCEPT ![p] =
                  [pc |-> "queried", anomaly |-> anomaly,
                   existing |-> RecentExisting(anomaly_table, anomaly, now) # {},
                   seen_rows |-> Cardinality(anomaly_table), saved |-> None]]
    /\ call' = [call EXCEPT !.count = @ + 1]
    /\ UNCHANGED <<now, anomaly_table, notification_table, preferences, seen,
                   returned, detector, argument>>
    /\ UNCHANGED tvars
    /\ UNCHANGED pvars

\* if existing: return None
RaceReturnNone(p) ==
    /\ run[p].pc = "queried"
    /\ run[p].existing
    /\ run' = [run EXCEPT ![p] = IdleRun]
    /\ call' = [call EXCEPT !.anomaly = run[p].anomaly, !.returned = None]
    /\ UNCHANGED <<now, anomaly_table, notification_table, preferences, seen,
                   returned, detector, argument>>
    /\ UNCHANGED tvars
    /\ UNCHANGED pvars

\* anomaly.save()
RaceSave(p) ==
    /\ run[p].pc = "queried"
    /\ ~run[p].existing
    /\ anomaly_table' = anomaly_table \cup {Saved(anomaly_table, run[p].anomaly, now)}
    /\ seen' = Append(seen, run[p].seen_rows)
    /\ run' = [run EXCEPT ![p].pc = "saved",
                          ![p].saved = Saved(anomaly_table, run[p].anomaly, now)]
    /\ UNCHANGED <<now, notification_table, preferences, call, returned, detector, argument>>
    /\ UNCHANGED tvars
    /\ UNCHANGED pvars

\* AnomalyNotification get_or_create; return anomaly
RaceNotify(p) ==
    /\ run[p].pc = "saved"
    /\ notification_table' =
           NotificationGetOrCreate(notification_table, preferences,
                                   run[p].saved.user, run[p].saved.id)
    /\ run' = [run EXCEPT ![p] = IdleRun]
    /\ call' = [call EXCEPT !.anomaly = run[p].anomaly, !.returned = run[p].saved]
    /\ UNCHANGED <<now, anomaly_table, preferences, seen, returned, detector, argument>>
    /\ UNCHANGED tvars
    /\ UNCHANGED pvars

RaceNext ==
    \/ \E p \in Runs, anomaly \in {a \in CandidateAnomalies : a.user = UserId} :
          RaceQuery(p, anomaly)
    \/ \E p \in Runs : RaceReturnNone(p)
    \/ \E p \in Runs : RaceSave(p)
    \/ \E p \in Runs : RaceNotify(p)
    \/ Tick

\* no anomaly yet; every user with the default preferences
RaceInit ==
    /\ AnomalyIdle
    /\ preferences = [u \in Users |-> DefaultPreferences]
    /\ store = <<>>
    /\ rows = <<>>
    /\ TaskIdle
    /\ HarnessIdle

SpecRace == RaceInit /\ [][RaceNext]_vars

----------------------------------------------------------------------------
(* The detectors of AnomalyDetectionService(user, account) *)

\* <<age in days, amount, merchant_name, category>> of the transactions the
\* account may hold: a large card payment of today and of two days ago, a
\* smaller one, older payments, a large income, standing orders without a
\* merchant of five and of eight days ago
LedgerProfiles ==
    {<<0, -60000, Str.ab, 1>>,
     <<2, -60000, Str.ab, 1>>,
     <<2, -1000, Str.ab, 1>>,
     <<40, -1000, <<>>, 1>>,
     <<100, -1000, Str.Ab_c, Null>>,
     <<1, 150000, <<>>, Null>>,
     <<5, -2000, <<>>, Null>>,
     <<8, -1000, <<>>, 1>>}

\* the rows in date order, numbered in that order
LedgerOf(profile) ==
    LET sorted ==
            SortByDate([i \in 1..Len(profile) |->
                [date |-> Today - profile[i][1], amount |-> profile[i][2],
                 merchant_name |-> profile[i][3], category_id |-> profile[i][4]]])
    IN  [i \in 1..Len(sorted) |->
            [f \in DOMAIN Tx(<<>>, <<>>, <<>>, <<>>, <<>>, <<>>, 0, "expense")
                   \cup {"id", "account_id", "date", "category_id"} |->
                CASE f = "id" -> i
                  [] f = "account_id" -> AccountId
                  [] f \in {"date", "amount", "merchant_name", "category_id"} -> sorted[i][f]
                  [] f = "type" -> IF sorted[i].amount < 0 THEN "expense" ELSE "income"
                  [] f = "description" -> Str.x
                  [] f = "payment_method" -> Str.card
                  [] f = "card_brand" -> Str.visa
                  [] OTHER -> <<>>]]

\* a RecurringTransaction row as the task writes it, with the fields a user
\* or an administrator can edit
RecurringRow(next_expected_date, is_ignored, merchant_name) ==
    [id |-> 1, account |-> AccountId, description |-> Str.rent, frequency |-> "monthly",
     user_id |-> UserId, merchant_name |-> merchant_name, amount |-> -1000,
     next_expected_date |-> next_expected_date,
     last_occurrence_date |-> next_expected_date - 30,
     occurrence_count |-> 3, confidence_score |-> Rat(9, 10),
     similar_descriptions |-> {Str.rent}, transaction_ids |-> <<1, 2, 3>>,
     is_active |-> TRUE, display_name |-> <<>>, is_ignored |-> is_ignored,
     user_notes |-> <<>>]

PreferenceChoices ==
    {[DefaultPreferences EXCEPT !.anomaly_detection_enabled = e,
                                !.enabled_types = ts,
                                !.spending_spike_multiplier = m] :
        e \in BOOLEAN,
        ts \in {AnomalyTypes,
                {},
                {"unusual_amount", "duplicate_pattern", "new_merchant"},
                {"missing_recurring", "spending_spike", "changed_recurring",
                 "account_inactive"}},
        m \in {Rat(2, 1), Rat(1, 2)}}

DetInit ==
    /\ \E n \in 0..MaxLedger : \E profile \in [1..n -> LedgerProfiles] :
          store = LedgerOf(profile)
    /\ rows \in {<<>>,
                 <<RecurringRow(Today - 10, FALSE, <<>>)>>,
                 <<RecurringRow(Today - 1, FALSE, Str.ab)>>,
                 <<RecurringRow(Today + 5, FALSE, <<>>)>>,
                 <<RecurringRow(Today - 10, TRUE, <<>>)>>,
                 <<RecurringRow(Today, FALSE, <<>>)>>,
                 <<RecurringRow(Today - 7, FALSE, <<>>)>>,
                 <<RecurringRow(Today - 8, FALSE, <<>>)>>,
                 <<RecurringRow(Today - 25, FALSE, <<>>)>>,
                 <<[RecurringRow(Today - 10, FALSE, <<>>) EXCEPT !.is_active = FALSE]>>}
    /\ \E p \in PreferenceChoices :
          preferences = [u \in Users |-> IF u = UserId THEN p ELSE DefaultPreferences]
    /\ AnomalyIdle
    /\ TaskIdle
    /\ HarnessIdle

\* what no detector changes
DetectorFrame == <<now, anomaly_table, notification_table, preferences, call, run, seen>>

DetectAllAnomaliesForTransaction ==
    /\ \E i \in 1..Len(store) :
          /\ returned' = detect_all_anomalies_for_transaction(preferences[UserId], store,
                                                              UserId, store[i])
          /\ argument' = store[i]
    /\ detector' = "detect_all_anomalies_for_transaction"
    /\ UNCHANGED DetectorFrame
    /\ UNCHANGED tvars
    /\ UNCHANGED pvars

DetectSpendingSpike ==
    /\ \E category \in {Null, 1} :
          /\ returned' = Opt(detect_spending_spike(preferences[UserId], store, UserId,
                                                   AccountId, category))
          /\ argument' = category
    /\ detector' = "detect_spending_spike"
    /\ UNCHANGED DetectorFrame
    /\ UNCHANGED tvars
    /\ UNCHANGED pvars

DetectMissingRecurring ==
    /\ \E i \in 1..Len(rows) :
          /\ returned' = Opt(detect_missing_recurring(UserId, AccountId, rows[i]))
          /\ argument' = rows[i]
    /\ detector' = "detect_missing_recurring"
    /\ UNCHANGED DetectorFrame
    /\ UNCHANGED tvars
    /\ UNCHANGED pvars

DetectChangedRecurring ==
    /\ \E i \in 1..Len(rows) :
          /\ returned' = Opt(detect_changed_recurring(store, UserId, AccountId, rows[i]))
          /\ argument' = rows[i]
    /\ detector' = "detect_changed_recurring"
    /\ UNCHANGED DetectorFrame
    /\ UNCHANGED tvars
    /\ UNCHANGED pvars

DetectAccountInactive ==
    /\ returned' = Opt(detect_account_inactive(preferences[UserId], store, UserId, AccountId))
    /\ argument' = None
    /\ detector' = "detect_account_inactive"
    /\ UNCHANGED DetectorFrame
    /\ UNCHANGED tvars
    /\ UNCHANGED pvars

DetNext ==
    \/ DetectAllAnomaliesForTransaction
    \/ DetectSpendingSpike
    \/ DetectMissingRecurring
    \/ DetectChangedRecurring
    \/ DetectAccountInactive

SpecDetect == DetInit /\ [][DetNext]_vars

----------------------------------------------------------------------------
(* _detect_unusual_amount on a new transaction of an account with a history *)

\* The new transaction is the last row, dated today.  It has a merchant and
\* a category, or a category only, or a description only, or none of them.
\* An earlier row has the amount 100 or 105 and the same merchant, category
\* and description (written in capitals), or it belongs to another merchant,
\* category or description, or it is older than 180 days.
AmountInit ==
    /\ \E n \in 0..MaxHistory :
         \E row \in [1..n -> {"100", "105", "other", "old"}],
            by \in {"merchant", "category", "description", "none"},
            amount \in {-105, -110, -150, -160} :
            store = [i \in 1..(n + 1) |->
                [f \in DOMAIN Tx(<<>>, <<>>, <<>>, <<>>, <<>>, <<>>, 0, "expense")
                       \cup {"id", "date", "account_id", "category_id"} |->
                    CASE f = "id" -> i
                      [] f = "account_id" -> AccountId
                      [] f = "type" -> "expense"
                      [] f = "date" -> IF i = n + 1 THEN Today
                                       ELSE IF row[i] = "old" THEN Today - 180 - i
                                       ELSE Today - 180 + i - 1
                      [] f = "amount" -> IF i = n + 1 THEN amount
                                         ELSE IF row[i] = "105" THEN -105 ELSE -100
                      [] f = "merchant_name" ->
                            IF by # "merchant" THEN <<>>
                            ELSE IF i <= n /\ row[i] = "other" THEN Str.x ELSE Str.ab
                      [] f = "category_id" ->
                            IF by = "merchant" THEN 1
                            ELSE IF by # "category" THEN Null
                            ELSE IF i <= n /\ row[i] = "other" THEN 2 ELSE 1
                      [] f = "description" ->
                            IF by = "none" THEN <<>>
                            ELSE IF i = n + 1 THEN Str.rent
                            ELSE IF by = "description" /\ row[i] = "other" THEN Str.nf
                            ELSE Upper(Str.rent)
                      [] OTHER -> <<>>]]
    /\ \E sensitivity \in {"low", "medium", "high"} :
          preferences = [u \in Users |->
                            [DefaultPreferences EXCEPT !.sensitivity = sensitivity]]
    /\ rows = <<>>
    /\ TaskIdle
    /\ HarnessIdle
    /\ AnomalyIdle

DetectUnusualAmount ==
    /\ returned' = Opt(_detect_unusual_amount(preferences[UserId], store, UserId,
                                              AccountId, store[Len(store)]))
    /\ argument' = store[Len(store)]
    /\ detector' = "_detect_unusual_amount"
    /\ UNCHANGED DetectorFrame
    /\ UNCHANGED tvars
    /\ UNCHANGED pvars

SpecAmount == AmountInit /\ [][DetectUnusualAmount]_vars

----------------------------------------------------------------------------
(* One RecurringTransactionDetector(account_id) whose detect() is called    *)
(* more than once over the same transactions                                *)

\* Rows of a standing order and of card-less payments: of the detector's
\* account inside the window (monthly from day 0 on), dated before the
\* window (monthly back from the day before it), of another account, and
\* transfers between own accounts
InstanceInit ==
    /\ \E n \in 0..MaxTx :
         \E kind \in [1..n -> {"in", "old", "other", "transfer", "nf", "nf_old"}] :
            store = [i \in 1..n |->
                [f \in DOMAIN Tx(<<>>, <<>>, <<>>, <<>>, <<>>, <<>>, 0, "expense")
                       \cup {"id", "date", "account_id", "category_id"} |->
                    CASE f = "id" -> i
                      [] f = "category_id" -> Null
                      [] f = "date" -> IF kind[i] \in {"old", "nf_old"}
                                       THEN Today - DaysBack - 1 - 30 * (i - 1)
                                       ELSE Today - DaysBack + 30 * (i - 1)
                      [] f = "account_id" -> IF kind[i] = "other" THEN AccountId + 1
                                             ELSE AccountId
                      [] f = "type" -> IF kind[i] = "transfer" THEN "transfer" ELSE "expense"
                      [] f = "amount" -> -999
                      [] f = "description" -> IF kind[i] \in {"nf", "nf_old"} THEN Str.nf
                                              ELSE Str.rent
                      [] f = "partner_iban" -> IF kind[i] \in {"nf", "nf_old"} THEN <<>>
                                               ELSE Str.AT1
                      [] f = "partner_name" -> IF kind[i] \in {"nf", "nf_old"} THEN <<>>
                                               ELSE Str.Bo
                      [] f = "payment_method" -> IF kind[i] \in {"nf", "nf_old"} THEN <<>>
                                                 ELSE Str.sepa
                      [] OTHER -> <<>>]]
    /\ rows = <<>>
    /\ TaskIdle
    /\ HarnessIdle
    /\ AnomalyIdle
    /\ preferences = [u \in Users |-> DefaultPreferences]

\* return self.patterns: the caller's list and the instance's list are one
InstanceReturned(d) ==
    /\ detections' = Append(detections, d[1])
    /\ patterns' = d[2]
    /\ grouped' = d[3]

\* detect(days_back) on the instance; self.patterns is what the earlier calls
\* left in it
Detect ==
    /\ Len(detections) < MaxDetects
    /\ InstanceReturned(detect(store, AccountId, DaysBack, patterns))
    /\ UNCHANGED <<store, rows, pc, idx, runs, created_count, updated_count, request>>
    /\ UNCHANGED pvars
    /\ UNCHANGED avars

SpecInstance == InstanceInit /\ [][Detect]_vars

----------------------------------------------------------------------------
(* _group_by_merchant_info on the transactions pass 1 left ungrouped *)

\* Card payments without partner data: merchant names of four words that
\* share three, of two words contained in the first, written in mixed case;
\* paid by card with or without a card brand, or by direct debit
MerchantInit ==
    /\ \E n \in 2..MaxTx :
         \E name \in [1..n -> {<<"a", " ", "b", " ", "c", " ", "d">>,
                               <<"a", " ", "b", " ", "c", " ", "e">>,
                               <<"A", " ", "b", " ">>,
                               <<"c", " ", "d">>}],
            paid \in [1..n -> {<<Str.card, Str.visa>>, <<Str.card, <<>>>>,
                               <<Str.sepa, <<>>>>}] :
            store = StoreOf([i \in 1..n |->
                        Tx(<<>>, <<>>, paid[i][1], name[i], paid[i][2], Str.x,
                           -999, "expense")])
    /\ rows = <<>>
    /\ TaskIdle
    /\ HarnessIdle
    /\ AnomalyIdle
    /\ preferences = [u \in Users |-> DefaultPreferences]

\* grouped_by_merchant = self._group_by_merchant_info(ungrouped)
GroupByMerchantInfo ==
    /\ pc = "idle"
    /\ grouped' = _group_by_merchant_info(store)
    /\ pc' = "grouped"
    /\ UNCHANGED <<store, patterns, rows, idx, runs, created_count, updated_count,
                   detections, request>>
    /\ UNCHANGED pvars
    /\ UNCHANGED avars

SpecMerchant == MerchantInit /\ [][GroupByMerchantInfo]_vars

----------------------------------------------------------------------------
(* UserAnomalyPreferences rows, created on demand by the service and by the *)
(* preferences endpoint.  In this specification `preferences` is the table  *)
(* itself: a set of rows, each with its user.                               *)

\* UserAnomalyPreferences(user=user) with the field defaults; enabled_types
\* has default=list
NewPreferences(user) ==
    [f \in DOMAIN DefaultPreferences \cup {"user"} |->
        CASE f = "user" -> user
          [] f = "enabled_types" -> {}
          [] OTHER -> DefaultPreferences[f]]

\* UserAnomalyPreferences.objects.get_or_create(user=user):
\* <<the row, created, the table afterwards>>
PreferencesGetOrCreate(table, user) ==
    IF \E r \in table : r.user = user
    THEN <<CHOOSE r \in table : r.user = user, FALSE, table>>
    ELSE <<NewPreferences(user), TRUE, table \cup {NewPreferences(user)}>>

\* preferences.save()
PreferencesSave(table, row) == {r \in table : r.user # row.user} \cup {row}

\* <<self.preferences, the table afterwards>>
_get_or_create_preferences(table, user) ==
    IF PreferencesGetOrCreate(table, user)[2]
       /\ PreferencesGetOrCreate(table, user)[1].enabled_types = {}
    THEN <<[PreferencesGetOrCreate(table, user)[1] EXCEPT !.enabled_types = AnomalyTypes],
           PreferencesSave(PreferencesGetOrCreate(table, user)[3],
               [PreferencesGetOrCreate(table, user)[1] EXCEPT !.enabled_types = AnomalyTypes])>>
    ELSE <<PreferencesGetOrCreate(table, user)[1], PreferencesGetOrCreate(table, user)[3]>>

\* the fields the endpoint copies from request.data
UpdatableFields ==
    {"anomaly_detection_enabled", "notify_on_critical", "notify_on_warning",
     "notify_on_info", "email_notifications", "push_notifications", "sensitivity",
     "enabled_types", "amount_deviation_percent", "spending_spike_multiplier",
     "days_before_inactive"}

\* the row after the setattr loop
WithRequestData(row, data) ==
    [f \in DOMAIN row |->
        IF f \in DOMAIN data \cap UpdatableFields THEN data[f] ELSE row[f]]

\* UserAnomalyPreferencesViewSet.me (PUT, PATCH):
\* <<the row serialized, the table afterwards>>
me(table, user, data) ==
    <<WithRequestData(PreferencesGetOrCreate(table, user)[1], data),
      PreferencesSave(PreferencesGetOrCreate(table, user)[3],
          WithRequestData(PreferencesGetOrCreate(table, user)[1], data))>>

\* Request bodies: one that names a column the rows here do not carry, and
\* ones that set the sensitivity, the enabled types, or the e-mail flag
RequestBodies ==
    {[notify_on_info |-> TRUE],
     [sensitivity |-> "high"],
     [enabled_types |-> {"unusual_amount"}],
     [email_notifications |-> TRUE, enabled_types |-> {}]}

PrefsInit ==
    /\ store = <<>>
    /\ rows = <<>>
    /\ TaskIdle
    /\ HarnessIdle
    /\ AnomalyIdle
    /\ preferences = {}

PrefsFrame ==
    <<now, anomaly_table, notification_table, run, seen>>

\* AnomalyDetectionService(user)
ConstructService ==
    /\ call.count < MaxCalls
    /\ \E user \in Users :
          /\ preferences' = _get_or_create_preferences(preferences, user)[2]
          /\ returned' = <<_get_or_create_preferences(preferences, user)[1]>>
          /\ argument' = [user |-> user]
    /\ detector' = "AnomalyDetectionService"
    /\ call' = [call EXCEPT !.count = @ + 1]
    /\ UNCHANGED PrefsFrame
    /\ UNCHANGED tvars
    /\ UNCHANGED pvars

\* PUT or PATCH /anomaly-preferences/me/
PreferencesMe ==
    /\ call.count < MaxCalls
    /\ \E user \in Users, data \in RequestBodies :
          /\ preferences' = me(preferences, user, data)[2]
          /\ returned' = <<me(preferences, user, data)[1]>>
          /\ argument' = [user |-> user, data |-> data]
    /\ detector' = "me"
    /\ call' = [call EXCEPT !.count = @ + 1]
    /\ UNCHANGED PrefsFrame
    /\ UNCHANGED tvars
    /\ UNCHANGED pvars

PrefsNext ==
    \/ ConstructService
    \/ PreferencesMe

SpecPrefs == PrefsInit /\ [][PrefsNext]_vars

----------------------------------------------------------------------------
(* detect() on transactions dated near the end of the calendar: adding the  *)
(* expected interval to the last date then leaves the range of date         *)

\* date.max, 9999-12-31, as a day number (day 0 is the 1 January before
\* Today)
DateMax == 365 * 7974 + 364

\* next_expected = last_date + timedelta(days=expected_days) raises
\* OverflowError: every earlier return of _detect_pattern was passed and the
\* sum lies after date.max
DetectPatternRaises(txs, frequency, confidence_pass) ==
    /\ _detect_pattern(<<>>, txs, frequency, confidence_pass) # None
    /\ txs[Len(txs)].date + FREQUENCY_DAYS[frequency] > DateMax

\* _find_patterns_in_group calls _detect_pattern outside any try
FindPatternsRaises(transactions, confidence_pass) ==
    \E frequency \in FreqSet :
        DetectPatternRaises(SortByDate(transactions), frequency, confidence_pass)

\* one turn of the loop over grouped.items() raises
GroupRaises(entry) ==
    /\ Len(entry.value.transactions) >= 2
    /\ FindPatternsRaises(entry.value.transactions,
           IF entry.value.format = "dict" THEN entry.value.confidence_pass ELSE 3)

\* detect() calls _find_patterns_in_group outside any try: the exception of
\* one group leaves detect()
DetectRaises(db, account_id, days_back) ==
    \E i \in 1..Len(GroupingPasses(LoadTransactions(db, account_id, days_back))) :
        GroupRaises(GroupingPasses(LoadTransactions(db, account_id, days_back))[i])

\* Transfers of two partners, each dated a quarter ago, today, a quarter
\* before date.max or on date.max
FutureInit ==
    /\ \E n \in 0..MaxTx :
         \E partner \in [1..n -> {<<Str.at1, Str.Bo>>, <<Str.x, Str.ab>>}],
            date \in [1..n -> {Today - 90, Today, DateMax - 90, DateMax}] :
            store = [i \in 1..n |->
                        [StoreOf([j \in 1..n |->
                             Tx(partner[j][1], partner[j][2], Str.sepa, <<>>, <<>>,
                                Str.rent, -999, "expense")])[i]
                         EXCEPT !.date = date[i]]]
    /\ rows = <<>>
    /\ TaskIdle
    /\ HarnessIdle
    /\ AnomalyIdle
    /\ preferences = [u \in Users |-> DefaultPreferences]

\* detector.detect(days_back=days_back): the list is returned, or the
\* exception reaches the caller
DetectOrRaise ==
    /\ pc = "idle"
    /\ IF DetectRaises(store, AccountId, DaysBack)
       THEN /\ pc' = "raised"
            /\ UNCHANGED <<patterns, grouped>>
       ELSE /\ pc' = "returned"
            /\ patterns' = detect(store, AccountId, DaysBack, <<>>)[1]
            /\ grouped' = detect(store, AccountId, DaysBack, <<>>)[3]
    /\ UNCHANGED <<store, rows, idx, runs, created_count, updated_count, detections, request>>
    /\ UNCHANGED pvars
    /\ UNCHANGED avars

SpecFuture == FutureInit /\ [][DetectOrRaise]_vars

----------------------------------------------------------------------------
(* detect_recurring_transactions_task under the retry policy of its         *)
(* decorator: autoretry_for=(Exception,), retry_backoff=5, max_retries=3    *)

\* the BankAccount rows
BankAccounts == {AccountId}

max_retries == 3

retry_backoff == 5

\* 2 ** n
RECURSIVE Pow2(_)
Pow2(n) == IF n = 0 THEN 1 ELSE 2 * Pow2(n - 1)

\* Transactions of a partner, of a merchant and with a description only
RetryProfiles ==
    {Tx(Str.at1, Str.Bo, Str.CARD, <<>>, <<>>, Str.rent, -999, "expense"),
     Tx(<<>>, <<>>, Str.card, Str.ab, Str.visa, Str.x, -999, "expense"),
     Tx(<<>>, <<>>, <<>>, <<>>, <<>>, Str.nf, -999, "expense")}

\* The task is queued for the account or for an id no BankAccount has
RetryInit ==
    /\ \E n \in 0..MaxTx : \E profile \in [1..n -> RetryProfiles] :
          store = StoreOf(profile)
    /\ \E account_id \in {AccountId, AccountId + 1} :
          request = [retries |-> 0, countdown |-> 0, account_id |-> account_id]
    /\ grouped = <<>>
    /\ patterns = <<>>
    /\ rows = <<>>
    /\ pc = "queued"
    /\ idx = 1
    /\ runs = 0
    /\ created_count = 0
    /\ updated_count = 0
    /\ detections = <<>>
    /\ HarnessIdle
    /\ AnomalyIdle
    /\ preferences = [u \in Users |-> DefaultPreferences]

\* BankAccount.objects.get(id=account_id) raises DoesNotExist, which is
\* logged and raised again
RunAccountNotFound ==
    /\ pc = "queued"
    /\ request.account_id \notin BankAccounts
    /\ pc' = "raised"
    /\ UNCHANGED <<store, grouped, patterns, rows, idx, runs, created_count,
                   updated_count, detections, request>>
    /\ UNCHANGED pvars
    /\ UNCHANGED avars

\* the account is found; RecurringTransactionDetector(account_id).detect()
RunDetect ==
    /\ pc = "queued"
    /\ request.account_id \in BankAccounts
    /\ DetectorReturned(detect(store, request.account_id, DaysBack, <<>>))
    /\ created_count' = 0
    /\ updated_count' = 0
    /\ idx' = 1
    /\ pc' = "upsert"
    /\ UNCHANGED <<store, rows, runs, detections, request>>
    /\ UNCHANGED pvars
    /\ UNCHANGED avars

\* update_or_create raises (the database refuses the statement): nothing is
\* written by this call; `except Exception` logs and raises again
RunUpsertRaises ==
    /\ pc = "upsert"
    /\ idx <= Len(patterns)
    /\ pc' = "raised"
    /\ UNCHANGED <<store, grouped, patterns, rows, idx, runs, created_count,
                   updated_count, detections, request>>
    /\ UNCHANGED pvars
    /\ UNCHANGED avars

\* autoretry_for=(Exception,): self.retry(exc=exc, countdown=...) with the
\* countdown jittered between 0 and retry_backoff * 2 ** retries
Autoretry ==
    /\ pc = "raised"
    /\ request.retries < max_retries
    /\ \E countdown \in {0, retry_backoff * Pow2(request.retries)} :
          request' = [request EXCEPT !.retries = @ + 1, !.countdown = countdown]
    /\ pc' = "queued"
    /\ UNCHANGED <<store, grouped, patterns, rows, idx, runs, created_count,
                   updated_count, detections>>
    /\ UNCHANGED pvars
    /\ UNCHANGED avars

\* self.retry with request.retries >= max_retries raises the exception: the
\* task has failed
RetriesExhausted ==
    /\ pc = "raised"
    /\ request.retries >= max_retries
    /\ pc' = "failed"
    /\ UNCHANGED <<store, grouped, patterns, rows, idx, runs, created_count,
                   updated_count, detections, request>>
    /\ UNCHANGED pvars
    /\ UNCHANGED avars

RetryNext ==
    \/ RunAccountNotFound
    \/ RunDetect
    \/ TaskUpsert
    \/ RunUpsertRaises
    \/ TaskReturn
    \/ Autoretry
    \/ RetriesExhausted

SpecRetry == RetryInit /\ [][RetryNext]_vars

----------------------------------------------------------------------------
(* generate_categories_task and generate_insights_task: each catches every  *)
(* exception of its body and calls self.retry with a countdown.  In these   *)
(* specifications `request` holds one request per task.                     *)

AiTasks == {"generate_categories_task", "generate_insights_task"}

\* @shared_task(bind=True, max_retries=3), on both tasks
ai_max_retries == 3

\* Variant: the countdown grows by 60 seconds with each retry
retry_LinearBackoff(req) ==
    IF req.retries >= ai_max_retries
    THEN [req EXCEPT !.pc = "failed"]
    ELSE [req EXCEPT !.pc = "queued", !.retries = @ + 1,
                     !.countdown = 60 * (req.retries + 1)]

\* raise self.retry(exc=exc, countdown=60 * (2 ** self.request.retries)):
\* the task is queued again with the countdown, or, once request.retries has
\* reached max_retries, exc is raised and the task has failed
retry(req) ==
    IF req.retries >= ai_max_retries
    THEN [req EXCEPT !.pc = "failed"]
    ELSE [req EXCEPT !.pc = "queued", !.retries = @ + 1,
                     !.countdown = 60 * Pow2(req.retries)]

\* both tasks were queued with delay()
AiInit ==
    /\ request = [t \in AiTasks |-> [pc |-> "queued", retries |-> 0, countdown |-> 0]]
    /\ store = <<>>
    /\ grouped = <<>>
    /\ patterns = <<>>
    /\ rows = <<>>
    /\ pc = "idle"
    /\ idx = 1
    /\ runs = 0
    /\ created_count = 0
    /\ updated_count = 0
    /\ detections = <<>>
    /\ HarnessIdle
    /\ AnomalyIdle
    /\ preferences = [u \in Users |-> DefaultPreferences]

AiFrame ==
    <<store, grouped, patterns, rows, pc, idx, runs, created_count, updated_count,
      detections>>

\* a worker takes the message once its countdown has passed and enters the
\* task body
AiStart(t) ==
    /\ request[t].pc = "queued"
    /\ request' = [request EXCEPT ![t].pc = "running"]
    /\ UNCHANGED AiFrame
    /\ UNCHANGED pvars
    /\ UNCHANGED avars

\* the body returns its result
AiSucceeds(t) ==
    /\ request[t].pc = "running"
    /\ request' = [request EXCEPT ![t].pc = "succeeded"]
    /\ UNCHANGED AiFrame
    /\ UNCHANGED pvars
    /\ UNCHANGED avars

\* the body raises (the provider call fails or times out): except Exception
AiRaises(t) ==
    /\ request[t].pc = "running"
    /\ request' = [request EXCEPT ![t] = retry(request[t])]
    /\ UNCHANGED AiFrame
    /\ UNCHANGED pvars
    /\ UNCHANGED avars

AiNext ==
    \E t \in AiTasks :
        \/ AiStart(t)
        \/ AiSucceeds(t)
        \/ AiRaises(t)

SpecAi == AiInit /\ [][AiNext]_vars

\* Workers keep consuming the queue, and a task body ends: the provider call
\* is a blocking request with a timeout, under CELERY_TASK_TIME_LIMIT
SpecAiLive ==
    /\ SpecAi
    /\ \A t \in AiTasks :
          /\ WF_vars(AiStart(t))
          /\ WF_vars(AiSucceeds(t) \/ AiRaises(t))

----------------------------------------------------------------------------
(* RuleEngine.  A value of rule.conditions is written as a one-element      *)
(* sequence, a key that is missing or null as the empty sequence; a text is *)
(* a sequence of characters, so that "" and a missing text coincide, as     *)
(* they do in `if desc and ...`.  Amount bounds are in cents and date       *)
(* bounds are day numbers: Decimal(str(...)) and date.fromisoformat(...) of *)
(* the stored values.                                                       *)

\* RuleContext(description=tx.description, ...)
RuleContext(tx) ==
    [description |-> tx.description, amount |-> tx.amount, date |-> tx.date,
     type |-> tx.type, category_id |-> tx.category_id]

\* RuleEngine.matches
matches(rule, ctx) ==
    LET c == rule.conditions
    IN  IF ~rule.active THEN FALSE
        ELSE IF /\ c.description_contains # <<>>
                /\ ~Contains(Lower(c.description_contains), Lower(ctx.description))
        THEN FALSE
        ELSE IF c.amount_min # <<>> /\ ctx.amount < c.amount_min[1] THEN FALSE
        ELSE IF c.amount_max # <<>> /\ ctx.amount > c.amount_max[1] THEN FALSE
        ELSE IF c.date_from # <<>> /\ ctx.date < c.date_from[1] THEN FALSE
        ELSE IF c.date_to # <<>> /\ ctx.date > c.date_to[1] THEN FALSE
        ELSE IF c.type # <<>> /\ ctx.type # c.type[1] THEN FALSE
        ELSE IF c.has_category = <<TRUE>> /\ ctx.category_id = Null THEN FALSE
        ELSE IF c.has_category = <<FALSE>> /\ ctx.category_id # Null THEN FALSE
        ELSE TRUE

\* Variant: order_by("id")
FirstByPriorityId_IdOnly(rules) ==
    CHOOSE r \in rules : \A q \in rules : r.id <= q.id

\* the rule that order_by("priority", "id") puts first
FirstByPriorityId(rules) ==
    CHOOSE r \in rules :
        \A q \in rules :
            r.priority < q.priority \/ (r.priority = q.priority /\ r.id <= q.id)

\* .order_by("priority", "id")
RECURSIVE OrderByPriorityId(_)
OrderByPriorityId(rules) ==
    IF rules = {} THEN <<>>
    ELSE <<FirstByPriorityId(rules)>>
         \o OrderByPriorityId(rules \ {FirstByPriorityId(rules)})

\* the for loop: <<the transaction afterwards, the value returned>>
RECURSIVE RulesLoop(_, _, _)
RulesLoop(ordered, ctx, tx) ==
    IF ordered = <<>> THEN <<tx, FALSE>>
    ELSE IF matches(Head(ordered), ctx)
    THEN <<[tx EXCEPT !.category_id = Head(ordered).category], TRUE>>
    ELSE RulesLoop(Tail(ordered), ctx, tx)

\* RuleEngine.apply_rules
apply_rules(rules, user_id, tx) ==
    RulesLoop(OrderByPriorityId({r \in rules : r.user = user_id /\ r.active}),
              RuleContext(tx), tx)

\* rule.conditions
Conditions(description_contains, amount_min, amount_max, date_from, date_to,
           type, has_category) ==
    [description_contains |-> description_contains, amount_min |-> amount_min,
     amount_max |-> amount_max, date_from |-> date_from, date_to |-> date_to,
     type |-> type, has_category |-> has_category]

\* Conditions on the text in either case, with an amount or a date range, on
\* the type, on the presence of a category, and none at all
ConditionChoices ==
    {Conditions(<<"u", "b", "e", "r">>, <<>>, <<>>, <<>>, <<>>, <<>>, <<>>),
     Conditions(<<"U", "B", "E", "R">>, <<500>>, <<5000>>, <<>>, <<>>, <<>>, <<>>),
     Conditions(<<>>, <<>>, <<>>, <<Today - 30>>, <<Today>>, <<"expense">>, <<>>),
     Conditions(<<>>, <<>>, <<>>, <<>>, <<>>, <<>>, <<TRUE>>),
     Conditions(<<>>, <<>>, <<>>, <<>>, <<>>, <<>>, <<FALSE>>),
     Conditions(<<>>, <<>>, <<>>, <<>>, <<>>, <<>>, <<>>)}

\* An uncategorized card payment, a categorized salary and an old payment
RuleTransactions ==
    {[id |-> 1, description |-> <<"U", "b", "e", "r", " ", "r", "i", "d", "e">>,
      amount |-> 1000, date |-> Today, type |-> "expense", category_id |-> Null],
     [id |-> 1, description |-> <<"p", "a", "y">>,
      amount |-> 500000, date |-> Today, type |-> "income", category_id |-> 1],
     [id |-> 1, description |-> <<"u", "b", "e", "r">>,
      amount |-> 499, date |-> Today - 31, type |-> "expense", category_id |-> Null]}

\* Rules with ids in the order of their insertion; the rule with id i assigns
\* category 10 + i; a rule is the user's and active, the user's and inactive,
\* or another user's
RulesInit ==
    /\ \E n \in 0..MaxRules :
         \E conditions \in [1..n -> ConditionChoices],
            priority \in [1..n -> {1, 2}],
            owner \in [1..n -> {<<UserId, TRUE>>, <<UserId, FALSE>>, <<UserId + 1, TRUE>>}] :
            rule_table = {[id |-> i, user |-> owner[i][1], conditions |-> conditions[i],
                           category |-> 10 + i, priority |-> priority[i],
                           active |-> owner[i][2]] : i \in 1..n}
    /\ \E tx \in RuleTransactions : store = <<tx>>
    /\ group = <<>>
    /\ result = <<>>
    /\ call_pass = 0
    /\ rows = <<>>
    /\ TaskIdle
    /\ AnomalyIdle
    /\ preferences = [u \in Users |-> DefaultPreferences]

\* engine.apply_rules(user_id, tx)
ApplyRules ==
    /\ detector = "none"
    /\ store' = <<apply_rules(rule_table, UserId, store[1])[1]>>
    /\ returned' = <<apply_rules(rule_table, UserId, store[1])[2]>>
    /\ detector' = "apply_rules"
    /\ argument' = store[1]
    /\ UNCHANGED <<now, anomaly_table, notification_table, preferences, call, run, seen>>
    /\ UNCHANGED <<grouped, patterns, rows, pc, idx, runs, created_count, updated_count,
                   detections, request>>
    /\ UNCHANGED pvars

SpecRules == RulesInit /\ [][ApplyRules]_vars

----------------------------------------------------------------------------
(* Detection runs on rows that exist already and that the user has edited   *)

\* Transactions of a partner and of a merchant
EditProfiles ==
    {Tx(Str.at1, Str.Bo, Str.CARD, <<>>, <<>>, Str.rent, -999, "expense"),
     Tx(<<>>, <<>>, Str.card, Str.ab, Str.visa, Str.x, -999, "expense")}

\* Transactions a month or a quarter apart; the rows are those a run wrote
\* when only the first k of the transactions existed
EditInit ==
    /\ \E n \in 0..MaxTx :
         \E profile \in [1..n -> EditProfiles], gaps \in [1..(n - 1) -> {30, 90}],
            k \in 0..n :
            /\ store = [i \in 1..n |->
                          [StoreOf(profile)[i]
                           EXCEPT !.date = SumSeq(SubSeq(gaps, 1, i - 1))]]
            /\ rows = UpsertAll(<<>>, AccountId,
                          detect(SubSeq(store, 1, k), AccountId, DaysBack, <<>>)[1])
    /\ grouped = <<>>
    /\ patterns = <<>>
    /\ pc = "done"
    /\ idx = 1
    /\ runs = 0
    /\ created_count = 0
    /\ updated_count = 0
    /\ detections = <<>>
    /\ request = [retries |-> 0, countdown |-> 0]
    /\ HarnessIdle
    /\ AnomalyIdle
    /\ preferences = [u \in Users |-> DefaultPreferences]

EditFrame ==
    <<store, grouped, patterns, pc, idx, runs, created_count, updated_count,
      detections, request>>

\* POST /recurring/{id}/ignore/
Ignore ==
    /\ pc = "done"
    /\ \E i \in 1..Len(rows) :
          /\ ~rows[i].is_ignored
          /\ rows' = [rows EXCEPT ![i].is_ignored = TRUE]
    /\ UNCHANGED EditFrame
    /\ UNCHANGED pvars
    /\ UNCHANGED avars

\* PATCH /recurring/{id}/update_details/ with display_name and user_notes
UpdateDetails ==
    /\ pc = "done"
    /\ \E i \in 1..Len(rows) :
          /\ rows[i].display_name = <<>>
          /\ rows' = [rows EXCEPT ![i].display_name = Str.ab, ![i].user_notes = Str.x]
    /\ UNCHANGED EditFrame
    /\ UNCHANGED pvars
    /\ UNCHANGED avars

\* PATCH /recurring/{id}/ with is_active and merchant_name, which the
\* serializer leaves writable
PartialUpdate ==
    /\ pc = "done"
    /\ \E i \in 1..Len(rows) :
          /\ rows[i].is_active
          /\ rows' = [rows EXCEPT ![i].is_active = FALSE, ![i].merchant_name = Str.ab]
    /\ UNCHANGED EditFrame
    /\ UNCHANGED pvars
    /\ UNCHANGED avars

EditNext ==
    \/ TaskQueued
    \/ TaskDetect
    \/ TaskUpsert
    \/ TaskReturn
    \/ Ignore
    \/ UpdateDetails
    \/ PartialUpdate

SpecEdit == EditInit /\ [][EditNext]_vars

----------------------------------------------------------------------------
(* Properties of _find_patterns_in_group and _detect_pattern *)

Called == call_pass # 0

Sorted == SortByDate(group)

\* Frequencies for which _detect_pattern emits a pattern in the recorded call
Passing == {f \in FreqSet : _detect_pattern(GroupKey, Sorted, f, call_pass) # None}

ScoreOf(f) == _score_pattern(_detect_pattern(GroupKey, Sorted, f, call_pass), f)

\* C2: _find_patterns_in_group returns zero or one pattern; a returned
\* pattern is the one _detect_pattern emits for its frequency, and no other
\* passing frequency has a strictly higher composite score.
C2_SingleBestPattern ==
    Called =>
        /\ Len(result) <= 1
        /\ Len(result) = 1 =>
            /\ result[1].frequency \in Passing
            /\ result[1] = _detect_pattern(GroupKey, Sorted, result[1].frequency, call_pass)
            /\ \A f \in Passing : RLeq(ScoreOf(f), ScoreOf(result[1].frequency))

\* Two frequencies pass for the group, with different scores, and one pattern
\* was returned
C2_Witness ==
    /\ Called
    /\ Len(result) = 1
    /\ \E f, g \in Passing : RLt(ScoreOf(f), ScoreOf(g))

\* The claim's three conditions, counted directly on the group's dates
NumValidIntervals(f) ==
    Cardinality({i \in 1..(Len(Sorted) - 1) :
        10 * Abs((Sorted[i + 1].date - Sorted[i].date) - FREQUENCY_DAYS[f])
            <= 3 * FREQUENCY_DAYS[f]})

MinOccOf(f) ==
    CASE f \in {"weekly", "bi-weekly"} -> 3
      [] OTHER -> 2

EmitConditions(f) ==
    /\ Len(group) >= MinOccOf(f)
    /\ NumValidIntervals(f) >= MinOccOf(f) - 1
    /\ SumSeq([i \in 1..Len(group) |-> group[i].amount]) # 0

\* C3: a pattern of frequency f is emitted only if the group has at least
\* MIN_OCCURRENCES[f] transactions, at least MIN_OCCURRENCES[f]-1 valid
\* intervals and a non-zero mean amount; otherwise _detect_pattern is None.
C3_EmitOnlyIfConditions ==
    /\ Called =>
          LET txs == Sorted IN
          \A f \in FreqSet :
             ~EmitConditions(f) => _detect_pattern(GroupKey, txs, f, call_pass) = None
    /\ (Called /\ Len(result) = 1) => EmitConditions(result[1].frequency)

\* A pattern was returned although another frequency fails each of the
\* claim's conditions in turn for this or a smaller group
C3_Witness ==
    /\ Called
    /\ Len(result) = 1
    /\ \E f \in FreqSet : Len(group) < MinOccOf(f)
    /\ \E f \in FreqSet : Len(group) >= MinOccOf(f) /\ NumValidIntervals(f) < MinOccOf(f) - 1

\* A group whose mean amount is zero although its intervals fit a frequency
C3_WitnessZeroMean ==
    /\ Called
    /\ result = <<>>
    /\ SumSeq([i \in 1..Len(group) |-> group[i].amount]) = 0
    /\ \E f \in FreqSet : Len(group) >= MinOccOf(f) /\ NumValidIntervals(f) = Len(group) - 1

MaxDate == CHOOSE d \in {group[i].date : i \in 1..Len(group)} :
              \A i \in 1..Len(group) : group[i].date <= d

\* C4: every returned pattern has 0.6 <= confidence_score <= 1.0 and
\* next_expected_date = last_occurrence_date + days_interval, days_interval
\* being the day count of its frequency and last_occurrence_date the latest
\* date of the group.
C4_ConfidenceAndNextDate ==
    \A k \in 1..Len(result) :
        LET p == result[k] IN
        /\ RLeq(<<6, 10>>, p.confidence_score)
        /\ RLeq(p.confidence_score, <<1, 1>>)
        /\ p.next_expected_date = p.last_occurrence_date + p.days_interval
        /\ p.days_interval \in {7, 14, 30, 90, 365}
        /\ p.days_interval =
              (CASE p.frequency = "weekly" -> 7
                 [] p.frequency = "bi-weekly" -> 14
                 [] p.frequency = "monthly" -> 30
                 [] p.frequency = "quarterly" -> 90
                 [] p.frequency = "yearly" -> 365)
        /\ p.last_occurrence_date = MaxDate

\* A returned pattern whose confidence is strictly between the two limits
C4_Witness ==
    /\ Len(result) = 1
    /\ RLt(<<6, 10>>, result[1].confidence_score)
    /\ RLt(result[1].confidence_score, <<1, 1>>)

\* C9: for the same transactions and frequency, confidence(pass 1) >=
\* confidence(pass 2) >= confidence(pass 3), and a pattern emitted for a
\* lower-reliability pass is also emitted for every higher-reliability pass.
C9_PassOrdering ==
    LET txs == Sorted IN
    \A f \in FreqSet :
        /\ RLeq(Confidence(txs, f, 2), Confidence(txs, f, 1))
        /\ RLeq(Confidence(txs, f, 3), Confidence(txs, f, 2))
        /\ _detect_pattern(GroupKey, txs, f, 3) # None
              => _detect_pattern(GroupKey, txs, f, 2) # None
        /\ _detect_pattern(GroupKey, txs, f, 2) # None
              => _detect_pattern(GroupKey, txs, f, 1) # None

\* The pass-2 call returned a pattern for a group the pass-3 call rejects
C9_Witness ==
    /\ call_pass = 2
    /\ Len(result) = 1
    /\ _detect_pattern(GroupKey, Sorted, result[1].frequency, 3) = None
    /\ RLt(result[1].confidence_score,
           Confidence(Sorted, result[1].frequency, 1))

MonthlyGroupOf4 ==
    /\ Len(group) = 4
    /\ \A i \in 1..4 : group[i].amount = group[1].amount
    /\ group[1].amount # 0
    /\ \A i \in 1..3 : Abs((group[i + 1].date - group[i].date) - 30) <= 2

\* C10: a pass-1 group of 4 transactions with one constant non-zero amount
\* and consecutive intervals of 30 +/- 2 days yields frequency monthly,
\* occurrence_count 4, confidence >= 0.9 and next date = last date + 30.
C10_MonthlyExample ==
    (call_pass = 1 /\ MonthlyGroupOf4) =>
        /\ Len(result) = 1
        /\ result[1].frequency = "monthly"
        /\ result[1].occurrence_count = 4
        /\ RLeq(<<9, 10>>, result[1].confidence_score)
        /\ result[1].next_expected_date = group[4].date + 30

\* The spec's scenario: 2024-01-01, 02-01, 03-03, 04-01 (days 0, 31, 62, 91)
C10_Witness ==
    /\ call_pass = 1
    /\ MonthlyGroupOf4
    /\ [i \in 1..4 |-> group[i].date] = <<0, 31, 62, 91>>
    /\ Len(result) = 1
    /\ result[1].next_expected_date = 121

----------------------------------------------------------------------------
(* Properties of the grouping passes and of the persistence task *)

Detected == pc \in {"upsert", "done"}

PassOfEntry(e) == IF e.value.format = "dict" THEN e.value.confidence_pass ELSE 3

\* the places (entry, position) at which transaction t occurs in grouped
Memberships(t) ==
    {<<e, k>> \in (1..Len(grouped)) \X (1..MaxTx + 1) :
        /\ k <= Len(grouped[e].value.transactions)
        /\ grouped[e].value.transactions[k] = t}

\* C1: after the three grouping passes every loaded transaction belongs to at
\* most one candidate group: none is in groups of two different passes, and
\* none is in two groups (or twice in one group) of the same pass.
C1_AtMostOneGroup ==
    Detected =>
        \A i \in 1..Len(store) :
            /\ Cardinality(Memberships(store[i])) <= 1
            /\ \A m1, m2 \in Memberships(store[i]) :
                  PassOfEntry(grouped[m1[1]]) = PassOfEntry(grouped[m2[1]])

\* A pass-1 group holds a transaction that carries the merchant name of a
\* pass-2 group formed in the same run
C1_Witness ==
    /\ Detected
    /\ \E e1, e2 \in 1..Len(grouped) :
          /\ PassOfEntry(grouped[e1]) = 1
          /\ PassOfEntry(grouped[e2]) = 2
          /\ \E t \in Range(grouped[e1].value.transactions) :
                \E u \in Range(grouped[e2].value.transactions) :
                    MerchantFieldsMatch(u, t)

SameKey(r1, r2) ==
    /\ r1.account = r2.account
    /\ r1.description = r2.description
    /\ r1.frequency = r2.frequency

\* C5: running the task twice on an unchanged transaction set leaves exactly
\* one row per (account, description, frequency): a later run creates no row
\* and updates one row per pattern.
C5_UpsertIdempotent ==
    /\ \A i, j \in 1..Len(rows) : SameKey(rows[i], rows[j]) => i = j
    /\ (runs >= 1 /\ pc = "upsert") => created_count = 0
    /\ (runs >= 2 /\ pc = "done") =>
          /\ created_count = 0
          /\ updated_count = Len(patterns)
          /\ Len(rows) = Len(patterns)
          /\ \A k \in 1..Len(patterns) :
                Cardinality({i \in 1..Len(rows) :
                    RowMatches(rows[i], AccountId, patterns[k].description,
                               patterns[k].frequency)}) = 1

\* The second run has finished and updated the two rows of the first
C5_Witness ==
    /\ runs = 2
    /\ pc = "done"
    /\ Len(rows) = 2
    /\ updated_count = 2

----------------------------------------------------------------------------
(* Properties of create_anomaly_if_new and of the anomaly detectors *)

SameAnomalyKey(a, b) ==
    /\ a.user = b.user
    /\ a.account = b.account
    /\ a.anomaly_type = b.anomaly_type

NoTwoWithin24h(table) ==
    \A a, b \in table :
        (a # b /\ SameAnomalyKey(a, b) /\ a.created_at <= b.created_at)
            => b.created_at - a.created_at >= 24

\* what a call with this argument does to the tables when a same-key anomaly
\* of the last 24 hours exists (recent) and when none does
C6_CallEffect(anomaly, recent) ==
    /\ (call'.returned = None) <=> recent
    /\ recent => /\ anomaly_table' = anomaly_table
                 /\ notification_table' = notification_table
    /\ ~recent => /\ call'.returned \notin anomaly_table
                  /\ anomaly_table' = anomaly_table \cup {call'.returned}
                  /\ call'.returned.created_at = now
                  /\ \A f \in DOMAIN anomaly : call'.returned[f] = anomaly[f]

\* C6: in a sequence of non-overlapping create_anomaly_if_new calls, a call
\* returns None and persists nothing exactly when an anomaly of the same
\* (user, account, anomaly_type) was created within the preceding 24 hours,
\* whatever its transaction; otherwise it persists and returns the anomaly;
\* so no two persisted anomalies of one key are created less than 24 hours
\* apart, and a call after the window has elapsed creates a new anomaly.
C6_DedupWithin24h ==
    [][(call'.count # call.count) =>
          /\ C6_CallEffect(call'.anomaly,
                 \E e \in anomaly_table :
                     /\ SameAnomalyKey(e, call'.anomaly)
                     /\ now - e.created_at <= 24)
          /\ NoTwoWithin24h(anomaly_table')]_vars

\* a call was suppressed by an anomaly of another transaction, which itself
\* was created once the window of a still older one had elapsed
C6_Witness ==
    /\ call.count > 0
    /\ call.returned = None
    /\ \E e, older \in anomaly_table :
          /\ SameAnomalyKey(e, call.anomaly)
          /\ SameAnomalyKey(older, call.anomaly)
          /\ e.transaction # call.anomaly.transaction
          /\ now - e.created_at <= 24
          /\ e.created_at - older.created_at > 24

\* C7: the check-then-create sequence is not atomic: two persisted anomalies
\* of one key created less than 24 hours apart exist only where the later
\* one's dedup query ran before the earlier one was inserted, and such a
\* state is reachable when two detection runs interleave.
C7_DuplicateOnlyByRace ==
    \A a, b \in anomaly_table :
        (a.id < b.id /\ SameAnomalyKey(a, b) /\ b.created_at - a.created_at < 24)
            => seen[b.id] < a.id

\* two anomalies of one key less than 24 hours apart are persisted, both
\* queries having run before either insert
C7_Witness ==
    \E a, b \in anomaly_table :
        /\ a.id < b.id
        /\ SameAnomalyKey(a, b)
        /\ b.created_at - a.created_at < 24
        /\ seen[a.id] < a.id
        /\ seen[b.id] < a.id

\* C8: every detector of AnomalyDetectionService returns no anomaly when the
\* user's anomaly_detection_enabled is false, and no anomaly of a type that
\* is not in the user's enabled_types.
C8_DetectorsHonorPreferences ==
    \A i \in 1..Len(returned) :
        /\ preferences[UserId].anomaly_detection_enabled
        /\ returned[i].anomaly_type \in preferences[UserId].enabled_types

----------------------------------------------------------------------------
(* Ties between frequencies *)

\* the confidence of the pattern _detect_pattern emits for a passing frequency
ConfidenceOf(f) == _detect_pattern(GroupKey, Sorted, f, call_pass).confidence_score

\* weekly 5 > bi-weekly 4 > monthly 3 > quarterly 2 > yearly 1
MoreSpecific(f, g) ==
    \E i, j \in 1..Len(Frequencies) : i < j /\ Frequencies[i] = f /\ Frequencies[j] = g

\* C12: whenever two candidate frequencies both pass for the same group with
\* equal confidence, the detector does not select the one with the lower
\* frequency priority: the returned frequency is the most specific of the
\* passing frequencies that share its confidence.
C12_TieGoesToHigherPriority ==
    Called =>
        \A f, g \in Passing :
            (ConfidenceOf(f) = ConfidenceOf(g) /\ MoreSpecific(f, g))
                => (Len(result) = 1 /\ result[1].frequency # g)

\* weekly and a coarser frequency pass with the same confidence and the
\* weekly pattern was returned
C12_Witness ==
    /\ Called
    /\ Len(result) = 1
    /\ result[1].frequency = "weekly"
    /\ \E g \in Passing \ {"weekly"} : ConfidenceOf(g) = ConfidenceOf("weekly")

----------------------------------------------------------------------------
(* Merchant matching *)

\* the merchant name as pass 2 compares it
MerchantOf(t) == Lower(Strip(t.merchant_name))

\* equal, or one contains the other, or the Jaccard overlap of the word sets
\* is at least 0.7
JaccardMatch(m1, m2) ==
    \/ m1 = m2
    \/ Contains(m1, m2)
    \/ Contains(m2, m1)
    \/ /\ WordSet(m1) # {}
       /\ WordSet(m2) # {}
       /\ 10 * Cardinality(WordSet(m1) \cap WordSet(m2))
             >= 7 * Cardinality(WordSet(m1) \cup WordSet(m2))

\* C13: in pass 2 two merchant names match exactly when they are equal, or
\* one contains the other, or the Jaccard overlap |A & B| / |A | B| of their
\* lower-cased word sets is >= 0.7; two transactions are in the same pass-2
\* group only if their merchant names match in this sense and their
\* payment_method and card_brand are equal.
C13_MerchantMatchIsJaccard ==
    pc = "grouped" =>
        /\ \A i, j \in 1..Len(store) :
              _merchants_match(MerchantOf(store[i]), MerchantOf(store[j]))
                  <=> JaccardMatch(MerchantOf(store[i]), MerchantOf(store[j]))
        /\ \A k \in 1..Len(grouped) :
              \A t, u \in Range(grouped[k].value.transactions) :
                 /\ JaccardMatch(MerchantOf(t), MerchantOf(u))
                 /\ Lower(Strip(t.payment_method)) = Lower(Strip(u.payment_method))
                 /\ Lower(Strip(t.card_brand)) = Lower(Strip(u.card_brand))

----------------------------------------------------------------------------
(* The unusual-amount detector *)

\* the historical amounts of the new transaction's group: of its merchant if
\* it has one, else of its category if it has one, else of its description
HistoricalAmounts(t) ==
    LET h == SelectSeq(store, LAMBDA r :
                 /\ r.id # t.id
                 /\ r.account_id = t.account_id
                 /\ r.type = t.type
                 /\ r.date >= Today - 180
                 /\ \/ t.merchant_name # <<>> /\ r.merchant_name = t.merchant_name
                    \/ /\ t.merchant_name = <<>>
                       /\ t.category_id # Null
                       /\ r.category_id = t.category_id
                    \/ /\ t.merchant_name = <<>>
                       /\ t.category_id = Null
                       /\ t.description # <<>>
                       /\ Lower(r.description) = Lower(t.description))
    IN  [i \in 1..Len(h) |-> h[i].amount]

\* |z| > 2 for the current amount c: (c - mean)^2 > 4 * variance, where
\* variance = sum((x - mean)^2) / (n - 1), both sides multiplied by n^2 * (n - 1)
ZAboveTwo(amounts, c) ==
    LET n == Len(amounts)
        S == SumSeq(amounts)
    IN  (n * c - S) * (n * c - S) * (n - 1)
            > 4 * SumSeq([i \in 1..n |-> (n * amounts[i] - S) * (n * amounts[i] - S)])

C16_UnusualAmountScoreAndSeverity ==
    \A i \in 1..Len(returned) :
        returned[i].anomaly_type = "unusual_amount" =>
            /\ RLeq(Rat(CASE preferences[UserId].sensitivity = "low" -> 90
                           [] preferences[UserId].sensitivity = "medium" -> 70
                           [] preferences[UserId].sensitivity = "high" -> 50, 1),
                    returned[i].anomaly_score)
            /\ returned[i].severity =
                   IF RLeq(Rat(90, 1), returned[i].anomaly_score) THEN "critical"
                   ELSE "warning"

----------------------------------------------------------------------------
(* The duplicate, missing-payment, spending-spike and changed-amount detectors *)

\* the anomalies of one type among those the latest call returned
ReturnedOf(anomaly_type) ==
    SelectSeq(returned, LAMBDA a : a.anomaly_type = anomaly_type)

\* C17: the duplicate-pattern detector flags a transaction exactly when the
\* same account holds another transaction with the same amount and the same
\* type dated within the 7 days preceding the flagged transaction; every
\* duplicate_pattern anomaly has score 75 and severity warning.
C17_DuplicateWithinSevenDaysBefore ==
    (/\ detector = "detect_all_anomalies_for_transaction"
     /\ preferences[UserId].anomaly_detection_enabled
     /\ "duplicate_pattern" \in preferences[UserId].enabled_types)
    => /\ ReturnedOf("duplicate_pattern") # <<>>
            <=> \E i \in 1..Len(store) :
                   /\ store[i].id # argument.id
                   /\ store[i].account_id = argument.account_id
                   /\ store[i].amount = argument.amount
                   /\ store[i].type = argument.type
                   /\ store[i].date < argument.date
                   /\ store[i].date >= argument.date - 7
       /\ \A i \in 1..Len(ReturnedOf("duplicate_pattern")) :
             /\ ReturnedOf("duplicate_pattern")[i].anomaly_score = Rat(75, 1)
             /\ ReturnedOf("duplicate_pattern")[i].severity = "warning"

\* C18: detect_missing_recurring returns an anomaly exactly when the
\* recurring pattern is active, not ignored, and today is after its
\* next_expected_date; the score is min(100, 60 + 2 * days_overdue) and the
\* severity is critical when days_overdue > 7 and warning otherwise.  A row
\* as detection persists it (active, not ignored) whose date has passed is
\* therefore reported by every call.
C18_MissingRecurringRule ==
    detector = "detect_missing_recurring" =>
        LET days_overdue == Today - argument.next_expected_date
        IN  /\ returned # <<>>
                 <=> (argument.is_active /\ ~argument.is_ignored /\ days_overdue > 0)
            /\ returned # <<>> =>
                 /\ Len(returned) = 1
                 /\ returned[1].anomaly_type = "missing_recurring"
                 /\ returned[1].recurring = argument.id
                 /\ returned[1].anomaly_score =
                        Rat(IF 60 + 2 * days_overdue > 100 THEN 100
                            ELSE 60 + 2 * days_overdue, 1)
                 /\ returned[1].severity =
                        IF days_overdue > 7 THEN "critical" ELSE "warning"

\* a pattern that is 25 days overdue was reported with the capped score
C18_Witness ==
    /\ detector = "detect_missing_recurring"
    /\ argument.next_expected_date = Today - 25
    /\ Len(returned) = 1
    /\ returned[1].anomaly_score = Rat(100, 1)
    /\ returned[1].severity = "critical"

\* C19: detect_spending_spike returns an anomaly exactly when the number of
\* the category's expense transactions in the current month exceeds
\* spending_spike_multiplier times the mean monthly count over the trailing
\* 6 months excluding the current month (the count in that window divided by
\* its 6 months); with no category or no historical transaction in the
\* window it returns no anomaly.
C19_SpikeAgainstSixMonthMean ==
    detector = "detect_spending_spike" =>
        LET mine == {i \in 1..Len(store) :
                        /\ store[i].account_id = AccountId
                        /\ store[i].category_id = argument
                        /\ store[i].type = "expense"}
            current == Cardinality({i \in mine : store[i].date >= MonthStart(Today)})
            history == Cardinality({i \in mine : /\ store[i].date < MonthStart(Today)
                                                 /\ store[i].date >= Today - 180})
        IN  returned # <<>>
                <=> /\ argument # Null
                    /\ history > 0
                    /\ RLt(RMul(Rat(history, 6), preferences[UserId].spending_spike_multiplier),
                           Rat(current, 1))

\* the amounts of the most recent up-to-5 expenses of the last 90 days that
\* carry the recurring pattern's merchant name are not all equal
OwnMerchantAmountsDiffer(recurring) ==
    LET own == {i \in 1..Len(store) :
                   /\ recurring.merchant_name # <<>>
                   /\ store[i].account_id = recurring.account
                   /\ store[i].merchant_name = recurring.merchant_name
                   /\ store[i].type = "expense"
                   /\ store[i].date >= Today - 90}
        recent == {i \in own :
                      Cardinality({j \in own : \/ store[j].date > store[i].date
                                               \/ store[j].date = store[i].date /\ j > i}) < 5}
    IN  /\ Cardinality(own) >= 2
        /\ \E i, j \in recent : store[i].amount # store[j].amount

\* C20: detect_changed_recurring returns an anomaly (score 75, severity
\* warning) exactly when at least 2 expense transactions of the recurring
\* pattern's own merchant exist in the past 90 days and the amounts of the
\* most recent up-to-5 of them are not all equal; transactions that do not
\* belong to the pattern's merchant are never compared.
C20_ChangedOnlyByOwnMerchant ==
    detector = "detect_changed_recurring" =>
        /\ returned # <<>> <=> OwnMerchantAmountsDiffer(argument)
        /\ \A i \in 1..Len(returned) :
              /\ returned[i].anomaly_score = Rat(75, 1)
              /\ returned[i].severity = "warning"

----------------------------------------------------------------------------
(* Properties of repeated detect() calls and of the loaded transactions *)

\* C11: calling detect() twice on the same detector instance over an
\* unchanged transaction set returns the same list of patterns both times:
\* the second result holds each group's pattern once and nothing carried
\* over from the first call.
C11_SecondCallSameAsFirst ==
    Len(detections) >= 2 => detections[2] = detections[1]

\* the rows detect(days_back) may consider
Eligible(t) ==
    /\ t.account_id = AccountId
    /\ t.type \in {"expense", "income"}
    /\ t.date >= Today - DaysBack

----------------------------------------------------------------------------
(* Properties of the UserAnomalyPreferences rows *)

\* the table has no row of the user
NoRowOf(table, user) == \A r \in table : r.user # user

\* C21: whenever a UserAnomalyPreferences row is first created for a user,
\* by constructing the service or by the preferences endpoint (unless the
\* request itself names enabled_types), its enabled_types holds all 9
\* anomaly types; there is never more than one row per user; constructing
\* the service for a user who already has a row leaves that row unchanged.
C21_PreferencesCreatedComplete ==
    [][/\ \A r \in preferences' :
             NoRowOf(preferences, r.user) =>
                \/ r.enabled_types = AnomalyTypes
                \/ detector' = "me" /\ "enabled_types" \in DOMAIN argument'.data
       /\ \A r, q \in preferences' : r.user = q.user => r = q
       /\ (detector' = "AnomalyDetectionService"
           /\ ~NoRowOf(preferences, argument'.user)) => preferences' = preferences
      ]_vars

----------------------------------------------------------------------------
(* Properties of the notifications create_anomaly_if_new writes *)

\* the notifications of the anomaly with this id
NotificationsOf(notes, anomaly_id) == {n \in notes : n.anomaly = anomaly_id}

\* the anomaly has one notification, of its user, unread, flagged as the
\* user's preferences say
NotifiedOnce(notes, a) ==
    /\ Cardinality(NotificationsOf(notes, a.id)) = 1
    /\ \A n \in NotificationsOf(notes, a.id) :
          /\ n.user = a.user
          /\ n.is_read = FALSE
          /\ n.is_notified_via_email = preferences[a.user].email_notifications
          /\ n.is_notified_via_push = preferences[a.user].push_notifications

\* C22: every anomaly persisted by create_anomaly_if_new has exactly one
\* AnomalyNotification, for its user, created unread with its email and push
\* flags equal to the user's email_notifications and push_notifications;
\* a call that returns None creates neither an anomaly nor a notification.
C22_OneNotificationPerAnomaly ==
    [][(call'.count # call.count) =>
          /\ \A a \in anomaly_table' : NotifiedOnce(notification_table', a)
          /\ \A n \in notification_table' : \E a \in anomaly_table' : a.id = n.anomaly
          /\ call'.returned = None =>
                /\ anomaly_table' = anomaly_table
                /\ notification_table' = notification_table
          /\ call'.returned # None =>
                /\ anomaly_table' = anomaly_table \cup {call'.returned}
                /\ notification_table' =
                      notification_table
                          \cup NotificationsOf(notification_table', call'.returned.id)
                /\ NotificationsOf(notification_table, call'.returned.id) = {}]_vars

\* an anomaly of a user with e-mail on and push off was persisted after
\* another call for that user had returned None
C22_Witness ==
    /\ call.count >= 3
    /\ call.returned # None
    /\ preferences[call.returned.user].email_notifications
    /\ ~preferences[call.returned.user].push_notifications
    /\ Cardinality(anomaly_table) = 2
    /\ Cardinality(notification_table) = 2

----------------------------------------------------------------------------
(* Properties of detect() when a group raises *)

\* the groups detect() built from the store
GroupsOfStore == GroupingPasses(LoadTransactions(store, AccountId, DaysBack))

\* the groups whose processing raises no exception
QuietGroups == SelectSeq(GroupsOfStore, LAMBDA entry : ~GroupRaises(entry))

\* C23: an exception raised while processing one candidate group in detect()
\* is caught locally and treated as 'no pattern' for that group: detect()
\* still returns, and returns the patterns of the remaining groups.
C23_GroupExceptionIsolated ==
    pc # "idle" =>
        /\ pc = "returned"
        /\ patterns = SortPatterns(PatternsOfGroups(QuietGroups))

----------------------------------------------------------------------------
(* Properties of detect_recurring_transactions_task when it is retried *)

\* the rows one successful run writes into the empty table
SingleRunRows == UpsertAll(<<>>, AccountId, detect(store, AccountId, DaysBack, <<>>)[1])

\* C24: given an account id that does not exist, the task raises (it never
\* returns normally) and writes no RecurringTransaction row; the queue
\* re-executes a failed task with backoff at most 3 times and then stops;
\* a run that failed part-way through the upsert loop and is retried
\* successfully leaves the rows of a single successful run.
C24_RaisesRetriesAndConverges ==
    [][/\ pc \notin {"failed", "done"}
       /\ request.account_id \notin BankAccounts =>
             /\ pc' \in {"raised", "queued", "failed"}
             /\ rows' = <<>>
       /\ request'.retries <= max_retries
       /\ request'.retries # request.retries =>
             /\ pc = "raised"
             /\ request'.retries = request.retries + 1
             /\ request'.countdown <= retry_backoff * Pow2(request.retries)
       /\ pc' = "done" => rows' = SingleRunRows
      ]_vars

\* a retry succeeded after a run had failed between two upserts: it updated
\* the row the failed run had written and created the one it had not
C24_Witness ==
    /\ pc = "done"
    /\ request.retries >= 1
    /\ updated_count >= 1
    /\ created_count >= 1

----------------------------------------------------------------------------
(* Properties of the retries of the AI tasks *)

\* C25: when generate_categories_task or generate_insights_task fails with
\* an exception it is retried with a delay of 60 * 2^n seconds, n the number
\* of retries already made (60 s, 120 s, 240 s), and at most 3 times; once
\* the retries are exhausted the task fails permanently and is never
\* executed again; every task eventually succeeds or ends in failure.
C25_BackoffThenTerminal ==
    /\ [][\A t \in AiTasks :
             /\ request'[t].retries <= 3
             /\ request'[t].retries # request[t].retries =>
                   /\ request[t].pc = "running"
                   /\ request'[t].retries = request[t].retries + 1
                   /\ request'[t].countdown = 60 * Pow2(request[t].retries)
                   /\ request'[t].countdown =
                         CASE request[t].retries = 0 -> 60
                           [] request[t].retries = 1 -> 120
                           [] request[t].retries = 2 -> 240
             /\ (request[t].pc = "running" /\ request'[t].pc = "queued") =>
                   request'[t].retries = request[t].retries + 1
             /\ request'[t].pc = "failed" =>
                   request[t].pc = "failed" \/ request[t].retries = 3
             /\ request[t].pc \in {"failed", "succeeded"} => request'[t] = request[t]
         ]_vars
    /\ <>[](\A t \in AiTasks : request[t].pc \in {"succeeded", "failed"})

\* one task failed for good after its third retry, scheduled with 240 s; the
\* other succeeded on its second retry
C25_Witness ==
    /\ request["generate_categories_task"] =
          [pc |-> "failed", retries |-> 3, countdown |-> 240]
    /\ request["generate_insights_task"] =
          [pc |-> "succeeded", retries |-> 2, countdown |-> 120]

----------------------------------------------------------------------------
(* Properties of RuleEngine.apply_rules *)

\* every condition the rule names holds of the transaction
AllConditionsHold(c, tx) ==
    /\ c.description_contains # <<>> =>
          Contains(Lower(c.description_contains), Lower(tx.description))
    /\ c.amount_min # <<>> => tx.amount >= c.amount_min[1]
    /\ c.amount_max # <<>> => tx.amount <= c.amount_max[1]
    /\ c.date_from # <<>> => tx.date >= c.date_from[1]
    /\ c.date_to # <<>> => tx.date <= c.date_to[1]
    /\ c.type # <<>> => tx.type = c.type[1]
    /\ c.has_category = <<TRUE>> => tx.category_id # Null
    /\ c.has_category = <<FALSE>> => tx.category_id = Null

\* the active rules of the user whose conditions all hold
MatchingRules(tx) ==
    {r \in rule_table : r.user = UserId /\ r.active /\ AllConditionsHold(r.conditions, tx)}

\* C26: apply_rules assigns the category of the first active rule of the
\* user, in ascending (priority, id) order, whose conditions all match
\* (description_contains being a case-insensitive substring test) and returns
\* True; when no active rule matches it returns False and leaves the category
\* unchanged; a rule with active = false never matches.
C26_FirstMatchingRuleApplies ==
    detector = "apply_rules" =>
        /\ MatchingRules(argument) = {} =>
              /\ returned = <<FALSE>>
              /\ store[1] = argument
        /\ MatchingRules(argument) # {} =>
              /\ returned = <<TRUE>>
              /\ \E r \in MatchingRules(argument) :
                    /\ \A q \in MatchingRules(argument) :
                          \/ r.priority < q.priority
                          \/ (r.priority = q.priority /\ r.id <= q.id)
                    /\ store[1] = [argument EXCEPT !.category_id = r.category]
        /\ \A r \in rule_table : ~r.active => ~matches(r, RuleContext(argument))

\* the rule 'uber' matched 'Uber ride' and won by its priority over a rule
\* with a smaller id
C26_Witness ==
    /\ detector = "apply_rules"
    /\ returned = <<TRUE>>
    /\ store[1].category_id = 12
    /\ \E r, q \in MatchingRules(argument) :
          /\ r.id = 2 /\ q.id = 1
          /\ r.priority < q.priority
          /\ r.conditions.description_contains = <<"u", "b", "e", "r">>
    /\ argument.description = <<"U", "b", "e", "r", " ", "r", "i", "d", "e">>

----------------------------------------------------------------------------
(* Properties of the amounts in _detect_pattern *)

\* the transactions of the group whose amount lies within 5% (AMOUNT_TOLERANCE)
\* of the group's mean amount
WithinTolerance ==
    {i \in 1..Len(group) :
        100 * Abs(Len(group) * group[i].amount
                    - SumSeq([k \in 1..Len(group) |-> group[k].amount]))
            <= 5 * Abs(SumSeq([k \in 1..Len(group) |-> group[k].amount]))}

\* the base confidence with amount_consistency the fraction of the amounts
\* within the tolerance
ToleranceConfidence(f) ==
    RMul(RAdd(RAdd(RMul(Rat(NumValidIntervals(f), Len(group) - 1), Rat(5, 10)),
                   RMul(Rat(Cardinality(WithinTolerance), Len(group)), Rat(3, 10))),
              RMul(RMin(Rat(Len(group), MinOccOf(f)), Rat(1, 1)), Rat(2, 10))),
         pass_multipliers(call_pass))

\* C27: a frequency is rejected unless at least 70% of the group's amounts
\* match the mean amount within AMOUNT_TOLERANCE (5%), and amount_consistency
\* in the confidence is the fraction of the amounts that match within that
\* tolerance.
C27_AmountsWithinTolerance ==
    (Called /\ Len(result) = 1) =>
        /\ 10 * Cardinality(WithinTolerance) >= 7 * Len(group)
        /\ result[1].confidence_score = ToleranceConfidence(result[1].frequency)

----------------------------------------------------------------------------
(* Properties of detection runs on existing rows *)

\* the row has the key of the pattern
KeyOf(row, pattern) ==
    /\ row.account = AccountId
    /\ row.description = pattern.description
    /\ row.frequency = pattern.frequency

\* C28: when the task updates an existing RecurringTransaction row it leaves
\* is_ignored, display_name and user_notes (and the key) unchanged, overwrites
\* amount, the dates, occurrence_count, confidence_score, similar_descriptions
\* and transaction_ids with the pattern's, sets is_active to true and
\* merchant_name to the empty string.
C28_UpdateKeepsUserFields ==
    [][(idx' = idx + 1 /\ Len(rows') = Len(rows)) =>
          \E i \in 1..Len(rows) :
              /\ KeyOf(rows[i], patterns[idx])
              /\ KeyOf(rows'[i], patterns[idx])
              /\ rows'[i].id = rows[i].id
              /\ rows'[i].is_ignored = rows[i].is_ignored
              /\ rows'[i].display_name = rows[i].display_name
              /\ rows'[i].user_notes = rows[i].user_notes
              /\ rows'[i].amount = QuantizeCents(patterns[idx].amount)
              /\ rows'[i].next_expected_date = patterns[idx].next_expected_date
              /\ rows'[i].last_occurrence_date = patterns[idx].last_occurrence_date
              /\ rows'[i].occurrence_count = patterns[idx].occurrence_count
              /\ rows'[i].confidence_score = patterns[idx].confidence_score
              /\ rows'[i].similar_descriptions = patterns[idx].similar_descriptions
              /\ rows'[i].transaction_ids = patterns[idx].transaction_ids
              /\ rows'[i].is_active = TRUE
              /\ rows'[i].merchant_name = <<>>
      ]_vars

\* a run updated a row the user had ignored, named and annotated: it counts
\* more occurrences than the run before, is active and has no merchant name
C28_Witness ==
    /\ pc = "done"
    /\ runs = 1
    /\ updated_count = 1
    /\ \E i \in 1..Len(rows) :
          /\ rows[i].is_ignored
          /\ rows[i].display_name = Str.ab
          /\ rows[i].user_notes = Str.x
          /\ rows[i].occurrence_count = 3
          /\ rows[i].is_active
          /\ rows[i].merchant_name = <<>>

\* C29: a detection run never deletes, deactivates or modifies a persisted
\* row whose (account, description, frequency) key is not among the patterns
\* detected in that run.
C29_UndetectedRowsUntouched ==
    [][(pc = "start" \/ pc = "upsert") =>
          /\ Len(rows') >= Len(rows)
          /\ \A i \in 1..Len(rows) :
                (pc = "start" \/ \A j \in 1..Len(patterns) : ~KeyOf(rows[i], patterns[j]))
                    => rows'[i] = rows[i]
      ]_vars

\* the best frequency of a group changed between two runs: the row of the
\* earlier frequency is still there and active, with its earlier count, next
\* to the new row of the same description
C29_Witness ==
    /\ pc = "done"
    /\ runs = 1
    /\ created_count = 1
    /\ \E i, j \in 1..Len(rows) :
          /\ i < j
          /\ rows[i].description = rows[j].description
          /\ rows[i].frequency # rows[j].frequency
          /\ rows[i].occurrence_count < rows[j].occurrence_count
          /\ rows[i].is_active
          /\ rows[j].is_active
          /\ \A p \in 1..Len(patterns) : ~KeyOf(rows[i], patterns[p])

----------------------------------------------------------------------------
(* Properties of the confidence of an emitted pattern *)

\* (0.5 * valid / total + 0.3 + 0.2) * the multiplier of the pass
ConfidenceOfFraction(valid, total) ==
    RMul(RAdd(RMul(Rat(valid, total), Rat(5, 10)), Rat(5, 10)),
         pass_multipliers(call_pass))

====
